---- MODULE Spec2Model ----
(***************************************************************************)
(* A model of the feeless-node consensus-and-replication engine:           *)
(* the Blockchain class (src/src/blockchain.ts) and the gossip / reorg     *)
(* handlers of P2PNetwork (src/src/p2pnet.ts).                             *)
(*                                                                         *)
(* Conventions.  An absent optional field of the source is the falsy       *)
(* value of its type: token "" , unlock 0, mint <<>>.  Hashes and          *)
(* signatures are tuples: a hash is the tuple of the hashed content (an    *)
(* injective digest), a valid signature is the tuple of the signing key    *)
(* and the signed content, and the literals "network", "mint", "genesis"   *)
(* and "1" are one-element tuples.  Times are in abstract units; every     *)
(* read of Date.now() is an input of the handler that reads it.            *)
(***************************************************************************)
EXTENDS Integers, Sequences, FiniteSets, TLC

VARIABLES bc, store, lastSeenBlock, lastSeenPush, syncActive, tasks,
          wscs, peerReconnectAttempts, silencedPeers,
          peerReconnectTimeouts, heartbeat

vars == <<bc, store, lastSeenBlock, lastSeenPush, syncActive, tasks,
          wscs, peerReconnectAttempts, silencedPeers,
          peerReconnectTimeouts, heartbeat>>

(* The outgoing peer sockets, the reconnect bookkeeping and the heartbeat
   of each socket *)
peers == <<wscs, peerReconnectAttempts, silencedPeers,
           peerReconnectTimeouts, heartbeat>>

(* syncState.isActive and the handlers suspended at an await *)
suspended == <<syncActive, tasks>>

-----------------------------------------------------------------------------
(* Bounds of the model *)

MaxHeight == 3
MaxMempool == 2
MaxIssued == 40
MaxDeepHeight == 4
MaxDeepIssued == 50
MaxTasks == 2
MaxPending == 4
MaxAttempts == 5

-----------------------------------------------------------------------------
(* Constants of the program and of feeless-utils.  Amounts and times are
   scaled down: MINT_SIG_SINCE stands for the cut-off 1754043286413 of the
   mint branch, FUTURE_SLACK for the 10 s a block may lie in the future,
   TX_MAX_AGE for the 60 s a gossiped transaction may be old. *)

DEV_WALLET == "DEV"
GENESIS_ADDR == "A"
GENESIS_AMOUNT == 10
MAX_USED_SIGNATURES == 10000
MINT_SIG_SINCE == 1
FUTURE_SLACK == 1
MAX_PUSH == 15
MAX_RECONNECT_ATTEMPTS == 3
MAX_MISSED_PINGS == 3
TX_MAX_AGE == 6
BLOCK_TIME == 1
TAIL == 2
STARTING_DIFF == 4
DEV_FEE_PCT == 10
BLOCK_REWARD == 10
MINT_FEE_BASE == 2

calculateReward(h) == BLOCK_REWARD

calculateMintFee(h, minted) == MINT_FEE_BASE + minted

(* Math.round(x / 100) for x >= 0 *)
RoundPct(x) == (x + 50) \div 100

DevFeeAmount(h) == RoundPct(calculateReward(h) * DEV_FEE_PCT)

MinerRewardAmount(h) == RoundPct(calculateReward(h) * (100 - DEV_FEE_PCT))

(* The target is a function of the tail; here of the parity of the last
   timestamp, so that blocks at the same height can differ in target. *)
getDiff(tail) ==
  IF tail = <<>> THEN STARTING_DIFF
  ELSE STARTING_DIFF + (tail[Len(tail)].timestamp % 2)

-----------------------------------------------------------------------------
(* Maps with a default, as Map.get(k) ?? 0, Map.set and Map.delete *)

Get(m, k) == IF k \in DOMAIN m THEN m[k] ELSE 0

Put(m, k, v) == [x \in DOMAIN m \cup {k} |-> IF x = k THEN v ELSE m[x]]

Del(m, k) == [x \in DOMAIN m \ {k} |-> m[x]]

EmptyMap == [x \in {} |-> 0]

Max(a, b) == IF a >= b THEN a ELSE b

(* String.toUpperCase on the token names of the model *)
toUpperCase(tok) == IF tok = "foo" THEN "FOO" ELSE tok

toLowerCase(tok) == IF tok = "FOO" THEN "foo" ELSE IF tok = "FLSS" THEN "flss" ELSE tok

(* /^[A-Z]+$/ on the token names of the model *)
IsUpperAlpha(tok) == tok \in {"FOO", "BAR", "FLSS"}

(* addr + (token ? "." + token : "") *)
Key(addr, token) == <<addr, token>>

-----------------------------------------------------------------------------
(* Transactions and signatures *)

Reserved == {"network", "mint"}

NetworkSig == <<"network">>

MintSig == <<"mint">>

(* JSON.stringify({...tx, signature: ""}) *)
TxContent(tx) ==
  <<tx.sender, tx.receiver, tx.amount, tx.nonce, tx.timestamp, tx.token,
    tx.unlock, tx.mint>>

(* The signature made with the private key of `key` over the content of tx *)
SignTx(key, tx) == <<key>> \o TxContent(tx)

(* ec.keyFromPublic(tx.sender).verify(SHA256(content), tx.signature) *)
VerifyTx(tx) == tx.signature = SignTx(tx.sender, tx)

HasMint(tx) == tx.mint # <<>>

MintOf(tx) == tx.mint[1]

-----------------------------------------------------------------------------
(* Blocks and hashes *)

(* JSON.stringify({...block, hash: "", signature: ""}) under argon2 *)
hashArgon(block) ==
  <<block.prev_hash, block.timestamp, block.transactions, block.nonce,
    block.proposer, block.diff>>

(* BigInt("0x" + hash): the magnitude of a mined hash is fixed by the
   content; the model reads it off the nonce it contains. *)
HashInt(hash) == IF Len(hash) = 6 THEN hash[4] ELSE 0

(* The proposer signature: the key that signed the block content *)
VerifyBlock(block) == block.signature = block.proposer

GenesisTx ==
  [sender |-> "network", receiver |-> GENESIS_ADDR, amount |-> GENESIS_AMOUNT,
   signature |-> NetworkSig, nonce |-> 0, timestamp |-> 1, token |-> "",
   unlock |-> 0, mint |-> <<>>]

GenesisBlock ==
  [timestamp |-> 1, transactions |-> <<GenesisTx>>, prev_hash |-> <<"genesis">>,
   nonce |-> 0, signature |-> "1", proposer |-> GENESIS_ADDR, hash |-> <<"1">>,
   diff |-> STARTING_DIFF]

-----------------------------------------------------------------------------
(* Blockchain: reads *)

InSeq(x, s) == \E i \in 1..Len(s) : s[i] = x

getBlock(st, h) == st[h]

getSlice(st, start, end) == [i \in 1..Max(end - start, 0) |-> getBlock(st, start + i - 1)]

getTail(b, st) == getSlice(st, Max(b.height - TAIL, 0), b.height)

(* The contribution of one pending transaction to calculateBalance *)
MempoolDelta(b, tx, addr, token, now) ==
  IF InSeq(tx.signature, b.usedSignatures) THEN 0
  ELSE IF token # "" \/ tx.token # ""
    THEN (IF tx.receiver = addr /\ tx.token = token THEN tx.amount ELSE 0)
         - (IF tx.sender = addr /\ tx.token = token THEN tx.amount ELSE 0)
    ELSE (IF tx.receiver = addr /\ (tx.unlock = 0 \/ tx.unlock < now)
            THEN tx.amount ELSE 0)
         - (IF tx.sender = addr THEN tx.amount ELSE 0)

RECURSIVE MempoolBalance(_, _, _, _, _)
MempoolBalance(b, i, addr, token, now) ==
  IF i = 0 THEN 0
  ELSE MempoolBalance(b, i - 1, addr, token, now)
       + MempoolDelta(b, b.mempool[i], addr, token, now)

calculateBalance(b, addr, includeMempool, token, now) ==
  (IF includeMempool THEN MempoolBalance(b, Len(b.mempool), addr, token, now) ELSE 0)
  + Get(b.balances, Key(addr, toUpperCase(token)))

(* Blockchain.calculateLocked: the loop evaluates `bal + lb.amount` for each
   entry of (addr, token) and drops the value, bal is not assigned *)
RECURSIVE lockedFrom(_, _, _, _, _)
lockedFrom(locks, i, addr, token, bal) ==
  IF i > Len(locks) THEN bal
  ELSE LET dropped == IF locks[i].addr = addr /\ locks[i].token = token
                      THEN bal + locks[i].amount ELSE bal
       IN lockedFrom(locks, i + 1, addr, token, bal)

calculateLocked(b, addr, token) == lockedFrom(b.lockedBalances, 1, addr, token, 0)

-----------------------------------------------------------------------------
(* Blockchain.checkTX *)

MiningRewardOr0(mint) == IF mint.miningReward = <<>> THEN 0 ELSE mint.miningReward[1]

(* The pending transaction that the loop of the sender-"mint" branch stops at:
   the first mint of this token paying the current mint fee, 0 when none *)
FirstPendingMint(b, token) ==
  LET hits == {i \in 1..Len(b.mempool) :
                 /\ HasMint(b.mempool[i])
                 /\ b.mempool[i].receiver = DEV_WALLET
                 /\ b.mempool[i].amount =
                      calculateMintFee(b.height, Cardinality(DOMAIN b.mintedTokens))
                 /\ MintOf(b.mempool[i]).token = token}
  IN IF hits = {} THEN 0 ELSE CHOOSE i \in hits : \A j \in hits : i <= j

checkAirdropTX(b, tx) ==
  IF tx.token \notin DOMAIN b.mintedTokens
  THEN LET i == FirstPendingMint(b, tx.token)
       IN IF i = 0 THEN FALSE
          ELSE IF tx.unlock # 0 THEN FALSE
          ELSE IF tx.amount # MintOf(b.mempool[i]).airdrop THEN FALSE
          ELSE IF tx.token \in DOMAIN b.mintedTokens THEN FALSE
          ELSE TRUE
  ELSE tx.amount = b.mintedTokens[tx.token].airdrop

checkMintTX(b, tx, isBlockValidation) ==
  LET expectedFee == calculateMintFee(b.height, Cardinality(DOMAIN b.mintedTokens))
      token == MintOf(tx).token
  IN IF tx.receiver # DEV_WALLET \/ tx.amount # expectedFee \/ tx.unlock # 0 THEN FALSE
     ELSE IF /\ tx.timestamp > MINT_SIG_SINCE
             /\ \/ ToString(tx.nonce) \in DOMAIN b.lastNonces
                \/ ~VerifyTx(tx)
                \/ InSeq(tx.signature, b.usedSignatures)
          THEN FALSE
     ELSE IF calculateBalance(b, tx.sender, FALSE, "", 0) < expectedFee THEN FALSE
     ELSE IF toLowerCase(token) = "flss" THEN FALSE
     ELSE IF token = "" THEN FALSE
     ELSE IF ~IsUpperAlpha(token) THEN FALSE
     ELSE IF token \in DOMAIN b.mintedTokens THEN FALSE
     ELSE IF /\ ~isBlockValidation
             /\ \E i \in 1..Len(b.mempool) :
                  HasMint(b.mempool[i]) /\ MintOf(b.mempool[i]).token = token
          THEN FALSE
     ELSE IF MintOf(tx).miningReward # <<>> /\ MintOf(tx).miningReward[1] <= 0 THEN FALSE
     ELSE IF MintOf(tx).airdrop < 0 THEN FALSE
     ELSE TRUE

checkNormalTX(b, tx, includeMempoolBalance, now) ==
  IF tx.sender \notin Reserved
  THEN IF tx.nonce <= Get(b.lastNonces, tx.sender) THEN FALSE
       ELSE IF ~VerifyTx(tx) THEN FALSE
       ELSE IF calculateBalance(b, tx.sender, includeMempoolBalance, tx.token, now)
                 < tx.amount THEN FALSE
       ELSE IF InSeq(tx.signature, b.usedSignatures) THEN FALSE
       ELSE TRUE
  ELSE TRUE

checkTX(b, tx, includeMempoolBalance, isBlockValidation, now) ==
  IF tx.amount <= 0 THEN FALSE
  ELSE IF tx.unlock # 0 /\ tx.timestamp >= tx.unlock THEN FALSE
  ELSE IF tx.sender = "mint" /\ tx.signature = MintSig /\ tx.token # ""
    THEN checkAirdropTX(b, tx)
  ELSE IF HasMint(tx) THEN checkMintTX(b, tx, isBlockValidation)
  ELSE checkNormalTX(b, tx, includeMempoolBalance, now)

-----------------------------------------------------------------------------
(* Blockchain.pushTX: the new chain state and the returned value.  `rnd` is
   the Math.random() nonce of the synthesized airdrop. *)

AirdropTx(tx, now, rnd) ==
  [sender |-> "mint", receiver |-> tx.sender, amount |-> MintOf(tx).airdrop,
   signature |-> MintSig, nonce |-> rnd, timestamp |-> now,
   token |-> MintOf(tx).token, unlock |-> 0, mint |-> <<>>]

(* pushTX without the airdrop it makes for a mint *)
pushTXNoAirdrop(b, tx, now, rnd) ==
  IF tx.sender = "network" \/ tx.sender = "mint" THEN [bc |-> b, ok |-> FALSE]
  ELSE IF ~checkTX(b, tx, FALSE, FALSE, now) THEN [bc |-> b, ok |-> FALSE]
  ELSE IF HasMint(tx) /\ tx.receiver = DEV_WALLET
            /\ MintOf(tx).token \in DOMAIN b.mintedTokens
    THEN [bc |-> b, ok |-> FALSE]
  ELSE [bc |-> [b EXCEPT !.mempool = Append(@, tx)], ok |-> TRUE]

pushTX(b, tx, now, rnd) ==
  IF tx.sender = "network" \/ tx.sender = "mint" THEN [bc |-> b, ok |-> FALSE]
  ELSE IF ~checkTX(b, tx, FALSE, FALSE, now) THEN [bc |-> b, ok |-> FALSE]
  ELSE IF HasMint(tx) /\ tx.receiver = DEV_WALLET
    THEN IF MintOf(tx).token \in DOMAIN b.mintedTokens THEN [bc |-> b, ok |-> FALSE]
         ELSE IF MintOf(tx).airdrop > 0
           THEN [bc |-> [b EXCEPT !.mempool = @ \o <<AirdropTx(tx, now, rnd), tx>>],
                 ok |-> TRUE]
           ELSE [bc |-> [b EXCEPT !.mempool = Append(@, tx)], ok |-> TRUE]
  ELSE [bc |-> [b EXCEPT !.mempool = Append(@, tx)], ok |-> TRUE]

(* txs.forEach((tx) => this.bc.pushTX(tx)) *)
RECURSIVE pushAll(_, _, _, _)
pushAll(b, txs, now, rnd) ==
  IF txs = <<>> THEN b
  ELSE pushAll(pushTX(b, Head(txs), now, rnd).bc, Tail(txs), now, rnd)

-----------------------------------------------------------------------------
(* Blockchain.validateBlockRewards *)

IsMintFeeTx(b, tx) ==
  /\ HasMint(tx)
  /\ tx.receiver = DEV_WALLET
  /\ tx.amount = calculateMintFee(b.height, Cardinality(DOMAIN b.mintedTokens))

(* First pass: the mints of this block, a later one replacing an earlier one *)
RECURSIVE pendingMintsOf(_, _, _)
pendingMintsOf(b, txs, i) ==
  IF i = 0 THEN EmptyMap
  ELSE LET rest == pendingMintsOf(b, txs, i - 1)
       IN IF IsMintFeeTx(b, txs[i])
          THEN Put(rest, MintOf(txs[i]).token,
                   [miningReward |-> MiningRewardOr0(MintOf(txs[i])),
                    airdrop |-> MintOf(txs[i]).airdrop])
          ELSE rest

(* this.mintedTokens.get(token) || pendingMints.get(token); <<>> when neither *)
TokenInfo(b, pending, token) ==
  IF token \in DOMAIN b.mintedTokens THEN <<b.mintedTokens[token]>>
  ELSE IF token \in DOMAIN pending THEN <<pending[token]>>
  ELSE <<>>

IsDevFeeTx(tx) == tx.sender = "network" /\ tx.receiver = DEV_WALLET /\ tx.token = ""

IsRewardTx(tx) == tx.sender = "network" /\ tx.receiver # DEV_WALLET

(* Second pass, from transaction i on, with the flags seen so far *)
RECURSIVE rewardsFrom(_, _, _, _, _, _)
rewardsFrom(b, txs, pending, i, hasDevFee, hasReward) ==
  IF i > Len(txs) THEN [isValid |-> TRUE, hasDevFee |-> hasDevFee, hasReward |-> hasReward]
  ELSE
    LET tx == txs[i]
        bad == [isValid |-> FALSE, hasDevFee |-> hasDevFee, hasReward |-> hasReward]
        info == TokenInfo(b, pending, tx.token)
    IN IF IsDevFeeTx(tx)
       THEN IF tx.unlock # 0 THEN bad
            ELSE IF hasDevFee THEN bad
            ELSE rewardsFrom(b, txs, pending, i + 1, TRUE, hasReward)
       ELSE IF IsRewardTx(tx)
       THEN IF tx.unlock # 0 THEN bad
            ELSE IF hasReward THEN bad
            ELSE IF tx.token # ""
              THEN IF info = <<>> THEN bad
                   ELSE IF info[1].miningReward = 0 THEN bad
                   ELSE IF info[1].miningReward # tx.amount THEN bad
                   ELSE rewardsFrom(b, txs, pending, i + 1, hasDevFee, TRUE)
              ELSE IF tx.amount # MinerRewardAmount(b.height) THEN bad
                   ELSE rewardsFrom(b, txs, pending, i + 1, hasDevFee, TRUE)
       ELSE IF tx.sender = "mint" /\ tx.token # ""
       THEN IF tx.unlock # 0 THEN bad
            ELSE IF info = <<>> THEN bad
            ELSE IF tx.amount # info[1].airdrop THEN bad
            ELSE IF \E j \in 1..(i - 1) :
                      /\ txs[j].sender = "mint"
                      /\ txs[j].signature = MintSig
                      /\ txs[j].token = tx.token
                      /\ txs[j].amount = info[1].airdrop
                 THEN bad
            ELSE rewardsFrom(b, txs, pending, i + 1, hasDevFee, hasReward)
       ELSE rewardsFrom(b, txs, pending, i + 1, hasDevFee, hasReward)

(* validateBlockRewards without its hasDevFee and hasReward results *)
validateBlockRewardsUncounted(b, block) ==
  [rewardsFrom(b, block.transactions,
               pendingMintsOf(b, block.transactions, Len(block.transactions)),
               1, FALSE, FALSE) EXCEPT !.hasDevFee = TRUE, !.hasReward = TRUE]

validateBlockRewards(b, block) ==
  rewardsFrom(b, block.transactions,
              pendingMintsOf(b, block.transactions, Len(block.transactions)),
              1, FALSE, FALSE)

-----------------------------------------------------------------------------
(* Blockchain.checkBlock *)

(* At most one transaction per non-reserved sender *)
NoRepeatedSender(txs) ==
  \A i, j \in 1..Len(txs) :
    (i < j /\ txs[i].sender \notin Reserved) => txs[i].sender # txs[j].sender

(* The count of pending transactions not younger than the block *)
PendingUpTo(b, ts) == Cardinality({i \in 1..Len(b.mempool) : b.mempool[i].timestamp <= ts})

SameTx(p, tx) ==
  /\ p.signature = tx.signature
  /\ p.amount = tx.amount
  /\ p.nonce = tx.nonce
  /\ p.receiver = tx.receiver
  /\ p.sender = tx.sender
  /\ p.token = tx.token

(* The mempool loop of checkBlock: a pending copy of tx is a mint of a token
   that is already in the registry *)
PendingCopyAlreadyMinted(b, tx) ==
  \E i \in 1..Len(b.mempool) :
    /\ SameTx(b.mempool[i], tx)
    /\ IsMintFeeTx(b, b.mempool[i])
    /\ MintOf(b.mempool[i]).token \in DOMAIN b.mintedTokens

checkBlockTXs(b, block) ==
  \A i \in 1..Len(block.transactions) :
    /\ ~PendingCopyAlreadyMinted(b, block.transactions[i])
    /\ checkTX(b, block.transactions[i], FALSE, TRUE, 0)

checkBlock(b, st, block, isBackchecking, skipHashing, now) ==
  LET target == getDiff(getTail(b, st))
      rewards == validateBlockRewards(b, block)
  IN IF target < HashInt(block.hash) THEN FALSE
     ELSE IF target # block.diff THEN FALSE
     ELSE IF ~NoRepeatedSender(block.transactions) THEN FALSE
     ELSE IF block.timestamp > now + FUTURE_SLACK THEN FALSE
     ELSE IF ~isBackchecking /\ block.timestamp < now - BLOCK_TIME THEN FALSE
     ELSE IF /\ ~isBackchecking
             /\ 4 * (Len(block.transactions) - 2) < 3 * PendingUpTo(b, block.timestamp)
          THEN FALSE
     ELSE IF ~skipHashing /\ hashArgon(block) # block.hash THEN FALSE
     ELSE IF b.height > 0 /\ block.prev_hash # b.lastBlock THEN FALSE
     ELSE IF ~VerifyBlock(block) THEN FALSE
     ELSE IF ~rewards.isValid THEN FALSE
     ELSE IF ~rewards.hasDevFee THEN FALSE
     ELSE IF ~rewards.hasReward THEN FALSE
     ELSE checkBlockTXs(b, block)

(* checkBlock up to the await of hashArgon *)
checkBlockBeforeHash(b, st, block, isBackchecking, now) ==
  LET target == getDiff(getTail(b, st))
  IN IF target < HashInt(block.hash) THEN FALSE
     ELSE IF target # block.diff THEN FALSE
     ELSE IF ~NoRepeatedSender(block.transactions) THEN FALSE
     ELSE IF block.timestamp > now + FUTURE_SLACK THEN FALSE
     ELSE IF ~isBackchecking /\ block.timestamp < now - BLOCK_TIME THEN FALSE
     ELSE IF /\ ~isBackchecking
             /\ 4 * (Len(block.transactions) - 2) < 3 * PendingUpTo(b, block.timestamp)
          THEN FALSE
     ELSE TRUE

(* checkBlock from the result of hashArgon on *)
checkBlockAfterHash(b, block) ==
  LET rewards == validateBlockRewards(b, block)
  IN IF hashArgon(block) # block.hash THEN FALSE
     ELSE IF b.height > 0 /\ block.prev_hash # b.lastBlock THEN FALSE
     ELSE IF ~VerifyBlock(block) THEN FALSE
     ELSE IF ~rewards.isValid THEN FALSE
     ELSE IF ~rewards.hasDevFee THEN FALSE
     ELSE IF ~rewards.hasReward THEN FALSE
     ELSE checkBlockTXs(b, block)

-----------------------------------------------------------------------------
(* Blockchain.addBlock *)

(* The loop that runs before checkBlock: every matured lock is credited and
   dropped from the locked list *)
RECURSIVE creditMatured(_, _, _, _)
creditMatured(b, locks, i, ts) ==
  IF i > Len(locks) THEN b
  ELSE LET lb == locks[i]
       IN IF lb.unlock <= ts
          THEN creditMatured(
                 [b EXCEPT !.balances =
                    Put(@, Key(lb.addr, lb.token),
                        calculateBalance(b, lb.addr, FALSE, lb.token, 0) + lb.amount)],
                 locks, i + 1, ts)
          ELSE creditMatured(b, locks, i + 1, ts)

releaseLocks(b, ts) ==
  [creditMatured(b, b.lockedBalances, 1, ts) EXCEPT
     !.lockedBalances = SelectSeq(b.lockedBalances, LAMBDA lb : lb.unlock > ts)]

(* The effect of one transaction of an accepted block *)
applyTX(b, tx, ts) ==
  LET minted == IF HasMint(tx) /\ tx.receiver = DEV_WALLET
                THEN Put(b.mintedTokens, MintOf(tx).token,
                         [miningReward |-> MiningRewardOr0(MintOf(tx)),
                          airdrop |-> MintOf(tx).airdrop])
                ELSE b.mintedTokens
      senderKey == Key(tx.sender, tx.token)
      receiverKey == Key(tx.receiver, tx.token)
      senderBal == Get(b.balances, senderKey)
      receiverBal == Get(b.balances, receiverKey)
      debited == IF senderBal - tx.amount = 0 THEN Del(b.balances, senderKey)
                 ELSE Put(b.balances, senderKey, senderBal - tx.amount)
  IN IF tx.unlock # 0 /\ tx.unlock > ts
     THEN [b EXCEPT !.mintedTokens = minted,
                    !.balances = debited,
                    !.lockedBalances =
                       Append(@, [amount |-> tx.amount, unlock |-> tx.unlock,
                                  addr |-> tx.receiver, token |-> tx.token])]
     ELSE [b EXCEPT !.mintedTokens = minted,
                    !.balances = Put(debited, receiverKey, receiverBal + tx.amount)]

RECURSIVE applyTXs(_, _, _)
applyTXs(b, txs, ts) ==
  IF txs = <<>> THEN b ELSE applyTXs(applyTX(b, Head(txs), ts), Tail(txs), ts)

(* usedSignatures.push(...) and the slice to the last MAX_USED_SIGNATURES *)
recordSignatures(used, txs) ==
  LET all == used \o [i \in 1..Len(txs) |-> txs[i].signature]
  IN IF Len(all) > MAX_USED_SIGNATURES
     THEN SubSeq(all, Len(all) - MAX_USED_SIGNATURES + 1, Len(all))
     ELSE all

(* The pending transactions that no transaction of the block matches *)
clearMempool(mempool, txs) ==
  SelectSeq(mempool, LAMBDA p :
    ~\E i \in 1..Len(txs) :
       /\ txs[i].receiver = p.receiver
       /\ txs[i].sender = p.sender
       /\ txs[i].token = p.token
       /\ txs[i].signature = p.signature)

commitBlock(b, block) ==
  LET applied == applyTXs(b, block.transactions, block.timestamp)
  IN [applied EXCEPT
        !.height = @ + 1,
        !.lastBlock = block.hash,
        !.usedSignatures = recordSignatures(@, block.transactions),
        !.mempool = clearMempool(@, block.transactions)]

(* A hash that is not a hexadecimal string *)
NotHex == <<"zz">>

(* BigInt("0x" + block.hash) at the head of checkBlock throws a SyntaxError *)
checkBlockThrows(block) == block.hash = NotHex

(* threw: the promise of addBlock is rejected instead of resolving to false *)
addBlock(b, st, block, isBackchecking, skipHashing, now) ==
  LET released == releaseLocks(b, block.timestamp)
  IN IF checkBlockThrows(block) THEN [bc |-> released, ok |-> FALSE, threw |-> TRUE]
     ELSE IF checkBlock(released, st, block, isBackchecking, skipHashing, now)
     THEN [bc |-> commitBlock(released, block), ok |-> TRUE, threw |-> FALSE]
     ELSE [bc |-> released, ok |-> FALSE, threw |-> FALSE]

-----------------------------------------------------------------------------
(* The inputs: transactions and blocks that peers and miners send *)

Nows == {1, 4}

NoMint == <<>>

Mint(token, airdrop, miningReward) ==
  <<[token |-> token, airdrop |-> airdrop, miningReward |-> miningReward]>>

(* A transaction signed with the key of `signer` *)
Tx(signer, sender, receiver, amount, nonce, ts, token, unlock, mint) ==
  LET body == [sender |-> sender, receiver |-> receiver, amount |-> amount,
               signature |-> <<>>, nonce |-> nonce, timestamp |-> ts,
               token |-> token, unlock |-> unlock, mint |-> mint]
  IN [body EXCEPT !.signature = SignTx(signer, body)]

NetworkTx(receiver, amount, ts, token, unlock) ==
  [sender |-> "network", receiver |-> receiver, amount |-> amount,
   signature |-> NetworkSig, nonce |-> 0, timestamp |-> ts, token |-> token,
   unlock |-> unlock, mint |-> NoMint]

Transfer2 == Tx("A", "A", "B", 1, 2, 2, "", 0, NoMint)

LockedTransfer == Tx("A", "A", "B", 1, 1, 2, "", 3, NoMint)

MintByA == Tx("A", "A", DEV_WALLET, MINT_FEE_BASE, 1, 2, "", 0, Mint("FOO", 1, <<1>>))

MintByB == Tx("B", "B", DEV_WALLET, MINT_FEE_BASE, 1, 2, "", 0, Mint("FOO", 2, <<>>))

(* A valid mint that also carries a token field *)
MintWithToken ==
  Tx("A", "A", DEV_WALLET, MINT_FEE_BASE, 1, 2, "FOO", 0, Mint("FOO", 1, <<1>>))

(* A mint with an old timestamp that carries the signature of another
   transaction in place of its own *)
OldMint ==
  [Tx("A", "A", DEV_WALLET, MINT_FEE_BASE, 1, 1, "", 0, Mint("FOO", 1, <<1>>))
     EXCEPT !.signature = Transfer2.signature]

ForgedTransfer == Tx("B", "A", "B", 1, 3, 2, "", 0, NoMint)

AirdropToA ==
  [sender |-> "mint", receiver |-> "A", amount |-> 1, signature |-> MintSig,
   nonce |-> 0, timestamp |-> 1, token |-> "FOO", unlock |-> 0, mint |-> NoMint]

(* Transactions of sender "mint" that are not the airdrop of a mint: one
   without a token, one whose signature is not "mint", one of another amount *)
MintSenderNoToken == [AirdropToA EXCEPT !.token = "", !.amount = 5]

MintSenderBadSig == [AirdropToA EXCEPT !.signature = <<"forged">>]

MintSenderBadAmount == [AirdropToA EXCEPT !.amount = 2]

(* The block bodies with and without transactions of sender "mint" *)
AirdropBodies ==
  {<<>>, <<Transfer2>>, <<MintByA, AirdropToA>>, <<MintSenderNoToken>>,
   <<MintByA, MintSenderBadSig>>, <<MintByA, MintSenderBadAmount>>, <<AirdropToA>>}

(* A mint that asks for no airdrop *)
MintNoAirdrop == Tx("A", "A", DEV_WALLET, MINT_FEE_BASE, 1, 2, "", 0, Mint("FOO", 0, <<1>>))

(* The transactions peers send to the mempool, with and without an airdrop
   and with the reserved senders *)
MempoolTxs ==
  {Transfer2, MintByA, MintNoAirdrop, ForgedTransfer, AirdropToA,
   NetworkTx("A", 1, 2, "", 0)}

GossipTxs == {Transfer2, LockedTransfer, MintByA, MintByB, OldMint, ForgedTransfer}

BlockTxs == {Transfer2, LockedTransfer, MintByA, MintByB, MintWithToken, OldMint, AirdropToA}

(* The transactions on which the claims about checkTX are evaluated *)
CheckTxs == GossipTxs \cup BlockTxs

BlockBodies ==
  {<<>>} \cup {<<x>> : x \in BlockTxs}
         \cup {<<MintByA, AirdropToA>>, <<AirdropToA, MintByA>>, <<MintByA, MintByB>>,
               <<Transfer2, MintByB>>, <<AirdropToA, AirdropToA>>,
               <<Transfer2, LockedTransfer>>}

Miner == "B"

(* A block mined on `prev` (the block below it) by the miner of the model *)
MkBlock(prev, h, ts, rewardTxs, body, nonce, signer) ==
  LET b == [timestamp |-> ts, transactions |-> body \o rewardTxs,
            prev_hash |-> prev.hash, nonce |-> nonce, signature |-> signer,
            proposer |-> Miner, hash |-> <<>>, diff |-> getDiff(<<prev>>)]
  IN [b EXCEPT !.hash = hashArgon(b)]

DevFeeTx(h, ts) == NetworkTx(DEV_WALLET, DevFeeAmount(h), ts, "", 0)

RewardTx(h, ts) == NetworkTx(Miner, MinerRewardAmount(h), ts, "", 0)

GoodRewards(h, ts) == <<DevFeeTx(h, ts), RewardTx(h, ts)>>

(* Well-formed blocks on `prev` at height h *)
GoodBlocks(prev, h, bodies) ==
  {MkBlock(prev, h, ts, GoodRewards(h, ts), body, 0, Miner) :
     ts \in {2, 3}, body \in bodies}

(* Reward sections that differ from the well-formed one *)
OddRewards(h, ts) ==
  {<<>>,
   <<DevFeeTx(h, ts)>>,
   <<RewardTx(h, ts)>>,
   <<DevFeeTx(h, ts), DevFeeTx(h, ts), RewardTx(h, ts)>>,
   <<DevFeeTx(h, ts), RewardTx(h, ts), RewardTx(h, ts)>>,
   <<NetworkTx(DEV_WALLET, DevFeeAmount(h) + 1, ts, "", 0), RewardTx(h, ts)>>,
   <<DevFeeTx(h, ts), NetworkTx(Miner, MinerRewardAmount(h) + 1, ts, "", 0)>>,
   <<DevFeeTx(h, ts), NetworkTx(Miner, 1, ts, "FOO", 0)>>,
   <<DevFeeTx(h, ts), NetworkTx(Miner, 2, ts, "FOO", 0)>>,
   <<DevFeeTx(h, ts), RewardTx(h, ts), NetworkTx(DEV_WALLET, 5, ts, "FOO", 0)>>,
   <<DevFeeTx(h, ts), NetworkTx(Miner, MinerRewardAmount(h), ts, "", 3)>>}

OddBlocks(prev, h) ==
  {MkBlock(prev, h, 2, rw, <<>>, 0, Miner) : rw \in OddRewards(h, 2)}
  \cup {MkBlock(prev, h, 2, GoodRewards(h, 2), <<>>, 9, Miner),
        MkBlock(prev, h, 2, GoodRewards(h, 2), <<>>, 0, "X"),
        [MkBlock(prev, h, 2, GoodRewards(h, 2), <<>>, 0, Miner) EXCEPT !.hash = <<"bad">>],
        [MkBlock(prev, h, 2, GoodRewards(h, 2), <<>>, 0, Miner) EXCEPT !.diff = @ + 1,
                                                                  !.hash = hashArgon(
            [MkBlock(prev, h, 2, GoodRewards(h, 2), <<>>, 0, Miner) EXCEPT !.diff = @ + 1])],
        MkBlock([prev EXCEPT !.hash = <<"stale">>], h, 3, GoodRewards(h, 3), <<>>, 0, Miner)}

(* The blocks the miners build on: the local tip, or any stored block when
   the local height is 0 *)
TipsOf(b, st) == IF b.height > 0 THEN {getBlock(st, b.height - 1)} ELSE {st[h] : h \in DOMAIN st}

(* The blocks a miner may send on top of the local tip *)
TipBlocks(b, st) ==
  UNION {GoodBlocks(prev, b.height, BlockBodies) \cup OddBlocks(prev, b.height) :
           prev \in TipsOf(b, st)}

(* Blocks without much content, for the chains that peers push and serve *)
GoodChainBlocks(prev, h) ==
  {MkBlock(prev, h, 2, GoodRewards(h, 2), <<>>, 0, Miner),
   MkBlock(prev, h, 3, GoodRewards(h, 3), <<Transfer2>>, 0, Miner)}

(* A block whose proposer signature does not verify *)
BadChainBlock(prev, h) == MkBlock(prev, h, 2, GoodRewards(h, 2), <<>>, 0, "X")

(* The chains of one or two blocks on the block `root` of height i *)
SubChainsOn(root, i) ==
  {<<b1>> : b1 \in GoodChainBlocks(root, i + 1) \cup {BadChainBlock(root, i + 1)}}
  \cup UNION {{<<b1, MkBlock(b1, i + 2, 3, GoodRewards(i + 2, 3), <<>>, 0, Miner)>>,
               <<b1, BadChainBlock(b1, i + 2)>>} : b1 \in GoodChainBlocks(root, i + 1)}

(* A genesis block of another network, and a chain on it *)
AlienGenesis == [GenesisBlock EXCEPT !.hash = <<"2">>]

RECURSIVE ChainOn(_, _, _)
ChainOn(prev, h, n) ==
  IF n = 0 THEN <<>>
  ELSE LET blk == MkBlock(prev, h, 2, GoodRewards(h, 2), <<>>, 0, Miner)
       IN <<blk>> \o ChainOn(blk, h + 1, n - 1)

(* A push of more than MAX_PUSH blocks *)
LongPush(st) == ChainOn(st[0], 1, MAX_PUSH + 1)

(* A block whose hash field is not a hexadecimal string *)
MalformedBlock(prev, h) ==
  [MkBlock(prev, h, 2, GoodRewards(h, 2), <<>>, 0, Miner) EXCEPT !.hash = NotHex]

PushInputs(b, st) ==
  UNION {SubChainsOn(st[i], i) : i \in 0..(b.height - 1)}
  \cup {<<MalformedBlock(st[i], i + 1)>> : i \in 0..(b.height - 1)}
  \cup {LongPush(st)}
  \cup SubChainsOn(AlienGenesis, 0)

(* The chain of a peer: the first p local blocks and one or two blocks more,
   or the chain of another network *)
RemoteChains(b, st) ==
  UNION {{[i \in 1..p |-> st[i - 1]] \o ext : ext \in SubChainsOn(st[p - 1], p - 1)} :
           p \in 1..b.height}
  \cup {<<AlienGenesis>> \o ChainOn(AlienGenesis, 1, b.height)}

-----------------------------------------------------------------------------
(* The state after construction from a store that holds the genesis block *)

InitBC ==
  [mempool |-> <<>>,
   mintedTokens |-> EmptyMap,
   height |-> 1,
   lastBlock |-> GenesisBlock.hash,
   usedSignatures |-> <<>>,
   lastNonces |-> EmptyMap,
   balances |-> (Key("network", "") :> (0 - GENESIS_AMOUNT))
                 @@ (Key(GENESIS_ADDR, "") :> GENESIS_AMOUNT),
   lockedBalances |-> <<>>]

(* The Blockchain constructor.  A chain object before any block is loaded *)
EmptyBC ==
  [height |-> 0, mempool |-> <<>>, mintedTokens |-> EmptyMap, lastBlock |-> <<>>,
   usedSignatures |-> <<>>, lastNonces |-> EmptyMap, balances |-> EmptyMap,
   lockedBalances |-> <<>>]

(* One transaction of the first block: its own bookkeeping, no checks *)
genesisTX(b, tx, ts) ==
  LET sender == calculateBalance(b, tx.sender, FALSE, tx.token, 0)
      receiver == calculateBalance(b, tx.receiver, FALSE, tx.token, 0)
      debited == IF sender - tx.amount = 0 THEN Del(b.balances, Key(tx.sender, tx.token))
                 ELSE Put(b.balances, Key(tx.sender, tx.token), sender - tx.amount)
  IN IF tx.unlock # 0 /\ tx.unlock > ts
     THEN [b EXCEPT !.balances = debited,
                    !.lockedBalances =
                       Append(@, [amount |-> tx.amount, unlock |-> tx.unlock,
                                  addr |-> tx.receiver, token |-> ""])]
     ELSE [b EXCEPT !.balances = Put(debited, Key(tx.receiver, tx.token), receiver + tx.amount)]

RECURSIVE genesisTXs(_, _, _)
genesisTXs(b, txs, ts) ==
  IF txs = <<>> THEN b ELSE genesisTXs(genesisTX(b, Head(txs), ts), Tail(txs), ts)

loadGenesis(block) ==
  [genesisTXs(EmptyBC, block.transactions, block.timestamp) EXCEPT
     !.height = 1, !.lastBlock = block.hash]

(* The blocks after the first: each is put in the mempool and added with
   isBackchecking and skipHashing; the first one that fails ends the load *)
RECURSIVE loadBlocksSkipping(_, _, _, _, _)
loadBlocksSkipping(b, st, h, n, now) ==
  IF h >= n THEN [bc |-> b, synced |-> TRUE]
  ELSE LET r == addBlock([b EXCEPT !.mempool = @ \o st[h].transactions], st, st[h],
                         TRUE, TRUE, now)
       IN loadBlocksSkipping(r.bc, st, h + 1, n, now)

(* The loop of the constructor over the blocks after the genesis block;
   synced is the call of onSynced and the resolution of waitForSync *)
RECURSIVE loadBlocks(_, _, _, _, _)
loadBlocks(b, st, h, n, now) ==
  IF h >= n THEN [bc |-> b, synced |-> TRUE]
  ELSE LET r == addBlock([b EXCEPT !.mempool = @ \o st[h].transactions], st, st[h],
                         TRUE, TRUE, now)
       IN IF r.ok THEN loadBlocks(r.bc, st, h + 1, n, now)
          ELSE [bc |-> r.bc, synced |-> FALSE]

(* new Blockchain(blocks) for the stored blocks 0..n-1 *)
Rebuild(st, n, now) ==
  IF n = 0 THEN EmptyBC ELSE loadBlocks(loadGenesis(st[0]), st, 1, n, now).bc

(* The peers of PEER: after the constructor every peer has a socket that is
   connecting *)
PeerUrls == {"p1", "p2"}

(* The closure of startHeartbeat: on is the interval, unanswered counts the
   pings sent since the last pong.  No heartbeat runs before the open. *)
HeartbeatOff == [on |-> FALSE, isAlive |-> TRUE, missedPings |-> 0, unanswered |-> 0]

startHeartbeat == [on |-> TRUE, isAlive |-> TRUE, missedPings |-> 0, unanswered |-> 0]

Init ==
  /\ bc = InitBC
  /\ store = (0 :> GenesisBlock)
  /\ lastSeenBlock = <<>>
  /\ lastSeenPush = <<>>
  /\ syncActive = FALSE
  /\ tasks = <<>>
  /\ wscs = [p \in PeerUrls |-> "connecting"]
  /\ peerReconnectAttempts = [p \in PeerUrls |-> 0]
  /\ silencedPeers = {}
  /\ peerReconnectTimeouts = [p \in PeerUrls |-> [live |-> 0, mapped |-> FALSE]]
  /\ heartbeat = [p \in PeerUrls |-> HeartbeatOff]

(* The state once every configured peer has answered the first connection *)
InitConnected ==
  /\ bc = InitBC
  /\ store = (0 :> GenesisBlock)
  /\ lastSeenBlock = <<>>
  /\ lastSeenPush = <<>>
  /\ syncActive = FALSE
  /\ tasks = <<>>
  /\ wscs = [p \in PeerUrls |-> "open"]
  /\ peerReconnectAttempts = [p \in PeerUrls |-> 0]
  /\ silencedPeers = {}
  /\ peerReconnectTimeouts = [p \in PeerUrls |-> [live |-> 0, mapped |-> FALSE]]
  /\ heartbeat = [p \in PeerUrls |-> startHeartbeat]

-----------------------------------------------------------------------------
(* P2PNetwork handlers *)

(* fs.writeFileSync("blockchain/" + h, ...) *)
writeBlock(st, h, block) == [x \in DOMAIN st \cup {h} |-> IF x = h THEN block ELSE st[x]]

(* P2PNetwork.incomingTX; the 5 s of future tolerance are below one time unit *)
incomingTX(b, tx, now, rnd) ==
  IF now - tx.timestamp > TX_MAX_AGE \/ now - tx.timestamp < 0 THEN [bc |-> b, ok |-> FALSE]
  ELSE IF \E i \in 1..Len(b.mempool) :
            tx.sender = b.mempool[i].sender /\ b.mempool[i].signature = tx.signature
    THEN [bc |-> b, ok |-> FALSE]
  ELSE pushTX(b, tx, now, rnd)

IncomingTX(tx, now) ==
  LET r == incomingTX(bc, tx, now, 0)
  IN /\ Len(r.bc.mempool) <= MaxMempool
     /\ bc' = r.bc
     /\ UNCHANGED <<store, lastSeenBlock, lastSeenPush>>
     /\ UNCHANGED suspended
     /\ UNCHANGED peers

(* The block branch of onPeerPayload with incomingBlock: a block whose hash is
   lastBlock or lastSeenBlock is dropped before addBlock is called *)
onBlockPayloadNoSeen(b, st, lsb, block, now) ==
  IF block.hash = b.lastBlock
  THEN [bc |-> b, store |-> st, lastSeenBlock |-> lsb,
        validated |-> FALSE, forwarded |-> FALSE]
  ELSE LET r == addBlock(b, st, block, FALSE, FALSE, now)
       IN [bc |-> r.bc,
           store |-> IF r.ok THEN writeBlock(st, r.bc.height - 1, block) ELSE st,
           lastSeenBlock |-> block.hash,
           validated |-> TRUE, forwarded |-> r.ok]

onBlockPayload(b, st, lsb, block, now) ==
  IF block.hash = b.lastBlock
  THEN [bc |-> b, store |-> st, lastSeenBlock |-> lsb,
        validated |-> FALSE, forwarded |-> FALSE]
  ELSE IF b.lastBlock = block.hash \/ lsb = block.hash
  THEN [bc |-> b, store |-> st, lastSeenBlock |-> lsb,
        validated |-> FALSE, forwarded |-> FALSE]
  ELSE LET r == addBlock(b, st, block, FALSE, FALSE, now)
       IN [bc |-> r.bc,
           store |-> IF r.ok THEN writeBlock(st, r.bc.height - 1, block) ELSE st,
           lastSeenBlock |-> block.hash,
           validated |-> TRUE, forwarded |-> r.ok]

IncomingBlock(block, now) ==
  /\ bc.height < MaxHeight
  /\ LET r == onBlockPayload(bc, store, lastSeenBlock, block, now)
     IN /\ r.validated
        /\ lastSeenBlock' = r.lastSeenBlock
        /\ bc' = r.bc
        /\ store' = r.store
  /\ UNCHANGED lastSeenPush
  /\ UNCHANGED suspended
  /\ UNCHANGED peers

(* The native coins the network has issued so far *)
Issued(b) == 0 - Get(b.balances, Key("network", ""))

(* The loop of the push handler over the blocks sub[k..], writing from
   height at on; sh and slb are the snapshot it restores when addBlock
   returns false.  When addBlock throws, the catch of onPeerPayload ends the
   handler and nothing is restored.  forwarded: the handler reached the
   toPeers(payload) after the loop *)
RECURSIVE applyPush(_, _, _, _, _, _, _, _)
applyPush(b, st, sub, k, at, sh, slb, now) ==
  IF k > Len(sub) THEN [bc |-> b, store |-> st, ok |-> TRUE, forwarded |-> TRUE]
  ELSE LET r == addBlock(pushAll(b, sub[k].transactions, now, 0), st, sub[k],
                         TRUE, FALSE, now)
       IN IF r.threw THEN [bc |-> r.bc, store |-> st, ok |-> FALSE, forwarded |-> FALSE]
          ELSE IF ~r.ok
          THEN [bc |-> [r.bc EXCEPT !.height = sh, !.lastBlock = slb],
                store |-> st, ok |-> FALSE, forwarded |-> TRUE]
          ELSE applyPush(r.bc, writeBlock(st, at, sub[k]), sub, k + 1, at + 1,
                         sh, slb, now)

(* The local heights the push handler scans for the parent of sub[1] *)
PushRoots(b, st, sub) ==
  {i \in Max(b.height - Len(sub) - 1, 0)..(b.height - 1) :
     i \in DOMAIN st /\ getBlock(st, i).hash = sub[1].prev_hash}

(* The scan for the root, from the tip down, reaches a height with no block
   file before it finds the root: getBlock throws *)
PushScanThrows(b, st, sub) ==
  \E i \in Max(b.height - Len(sub) - 1, 0)..(b.height - 1) :
    /\ i \notin DOMAIN st
    /\ \A j \in PushRoots(b, st, sub) : j < i

(* The push handler writing the pushed blocks from the height of their
   parent on, one height too low *)
onPushAnyLength(b, st, sub, now) ==
  IF PushRoots(b, st, sub) = {}
  THEN [bc |-> b, store |-> st, ok |-> FALSE, forwarded |-> FALSE]
  ELSE LET i == CHOOSE x \in PushRoots(b, st, sub) : \A y \in PushRoots(b, st, sub) : y <= x
       IN applyPush([b EXCEPT !.height = i + 1, !.lastBlock = getBlock(st, i).hash],
                    st, sub, 1, i + 1, b.height, b.lastBlock, now)

onPush(b, st, sub, now) ==
  IF Len(sub) > MAX_PUSH \/ PushRoots(b, st, sub) = {}
  THEN [bc |-> b, store |-> st, ok |-> FALSE, forwarded |-> FALSE]
  ELSE LET i == CHOOSE x \in PushRoots(b, st, sub) : \A y \in PushRoots(b, st, sub) : y <= x
       IN applyPush([b EXCEPT !.height = i + 1, !.lastBlock = getBlock(st, i).hash],
                    st, sub, 1, i + 1, b.height, b.lastBlock, now)

(* The push branch of onPeerPayload: a payload identical to the last seen
   push is dropped before the chain is read *)
onPushPayload(b, st, lsp, sub, now) ==
  IF sub = lsp
  THEN [bc |-> b, store |-> st, lastSeenPush |-> lsp,
        handled |-> FALSE, forwarded |-> FALSE]
  ELSE LET r == onPush(b, st, sub, now)
       IN [bc |-> r.bc, store |-> r.store, lastSeenPush |-> sub,
           handled |-> TRUE, forwarded |-> r.forwarded]

Push(sub, now) ==
  /\ LET r == onPushPayload(bc, store, lastSeenPush, sub, now)
     IN /\ r.handled
        /\ lastSeenPush' = r.lastSeenPush
        /\ r.bc.height <= MaxHeight
        /\ Len(r.bc.mempool) <= MaxMempool
        /\ Issued(r.bc) <= MaxIssued
        /\ bc' = r.bc
        /\ store' = r.store
  /\ UNCHANGED lastSeenBlock
  /\ UNCHANGED suspended
  /\ UNCHANGED peers

(* fetchRemoteBlock(i): <<>> stands for null *)
fetchRemoteBlock(remote, i) == IF i + 1 <= Len(remote) THEN <<remote[i + 1]>> ELSE <<>>

(* The heights below the local height, from the top down to the first one
   where the peer has no block or has the local block *)
RECURSIVE findFork(_, _, _, _)
findFork(b, st, remote, i) ==
  IF i < 0 THEN [fork |-> 0, threw |-> FALSE]
  ELSE IF fetchRemoteBlock(remote, i) = <<>> THEN [fork |-> 0, threw |-> TRUE]
  ELSE IF fetchRemoteBlock(remote, i)[1].hash = getBlock(st, i).hash
    THEN [fork |-> i + 1, threw |-> FALSE]
  ELSE findFork(b, st, remote, i - 1)

(* The loop of sync over the heights i..remoteHeight-1 *)
RECURSIVE restoreChain(_, _, _, _, _, _)
restoreChain(b, st, remote, i, remoteHeight, now) ==
  IF i >= remoteHeight THEN [bc |-> b, store |-> st, ok |-> TRUE]
  ELSE IF fetchRemoteBlock(remote, i) = <<>> THEN [bc |-> b, store |-> st, ok |-> FALSE]
  ELSE LET block == fetchRemoteBlock(remote, i)[1]
           r == addBlock(pushAll(b, block.transactions, now, 0), st, block,
                         TRUE, FALSE, now)
       IN IF ~r.ok THEN [bc |-> r.bc, store |-> st, ok |-> FALSE]
          ELSE restoreChain(r.bc, writeBlock(st, i, block), remote, i + 1,
                            remoteHeight, now)

sync(b, st, remoteHeight, remote, remoteMempool, now) ==
  LET f == findFork(b, st, remote, b.height - 1)
  IN IF f.threw THEN [bc |-> b, store |-> st, ok |-> FALSE]
     ELSE IF f.fork = 0
       THEN [bc |-> [b EXCEPT !.height = 0], store |-> st, ok |-> FALSE]
     ELSE LET r == restoreChain([b EXCEPT !.height = f.fork,
                                          !.lastBlock = getBlock(st, f.fork - 1).hash,
                                          !.mempool = <<>>],
                                st, remote, f.fork, remoteHeight, now)
          IN IF r.ok
             THEN [bc |-> pushAll(r.bc, remoteMempool, now, 0), store |-> r.store,
                   ok |-> TRUE]
             ELSE r

(* A watchdog tick that finds the peer ahead *)
WatchDogSync(remoteHeight, remote, remoteMempool, now) ==
  /\ remoteHeight > bc.height
  /\ remoteHeight <= MaxHeight
  /\ LET r == sync(bc, store, remoteHeight, remote, remoteMempool, now)
     IN /\ Len(r.bc.mempool) <= MaxMempool
        /\ Issued(r.bc) <= MaxIssued
        /\ bc' = r.bc
        /\ store' = r.store
  /\ UNCHANGED <<lastSeenBlock, lastSeenPush>>
  /\ UNCHANGED suspended
  /\ UNCHANGED peers

(* The chains of an honest peer: linked, from the genesis block on *)
HonestChains ==
  UNION {LET b2 == MkBlock(b1, 2, 3, GoodRewards(2, 3), <<>>, 0, Miner)
         IN {<<GenesisBlock, b1>>,
             <<GenesisBlock, b1, b2>>,
             <<GenesisBlock, b1, b2>> \o ChainOn(b2, 3, 1)} :
           b1 \in GoodChainBlocks(GenesisBlock, 1)}

(* A watchdog tick that finds an honest peer ahead, up to MaxDeepHeight *)
WatchDogSyncHonest(remote, now) ==
  /\ Len(remote) > bc.height
  /\ Len(remote) <= MaxDeepHeight
  /\ LET r == sync(bc, store, Len(remote), remote, <<>>, now)
     IN /\ Issued(r.bc) <= MaxDeepIssued
        /\ bc' = r.bc
        /\ store' = r.store
  /\ UNCHANGED <<lastSeenBlock, lastSeenPush>>
  /\ UNCHANGED suspended
  /\ UNCHANGED peers

(* A watchdog tick that finds the peer behind: the last blocks are pushed *)
(* The orders in which wscs.forEach can visit the sockets: the order of
   insertion, which reconnects change *)
PeerOrders == {<<"p1", "p2">>, <<"p2", "p1">>}

(* wscs.forEach((c) => c.send(..)) of watchDog: send throws on a socket that
   is still connecting, which ends the loop, and drops the message without
   an exception on a socket that is closing *)
RECURSIVE sendEach(_, _, _, _)
sendEach(w, order, k, delivered) ==
  IF k > Len(order) THEN [delivered |-> delivered, threw |-> FALSE]
  ELSE IF w[order[k]] = "connecting" THEN [delivered |-> delivered, threw |-> TRUE]
  ELSE IF w[order[k]] = "open"
  THEN sendEach(w, order, k + 1, delivered \cup {order[k]})
  ELSE sendEach(w, order, k + 1, delivered)

(* The push branch of watchDog: the slice, the sends, and lastSeenPush,
   which is set after the sends *)
watchDogPush(b, st, lsp, w, order) ==
  LET push == getSlice(st, Max(b.height - MAX_PUSH, 1), b.height)
      r == sendEach(w, order, 1, {})
  IN [push |-> push, delivered |-> r.delivered,
      lastSeenPush |-> IF r.threw THEN lsp ELSE push]

WatchDogPush ==
  /\ bc.height > 0
  /\ \E order \in PeerOrders :
       lastSeenPush' = watchDogPush(bc, store, lastSeenPush, wscs, order).lastSeenPush
  /\ UNCHANGED <<bc, store, lastSeenBlock>>
  /\ UNCHANGED suspended
  /\ UNCHANGED peers

-----------------------------------------------------------------------------
(* The handlers step by step.  An async handler runs until its next await of
   a hash, a fetch or a file write, and is resumed later; other handlers run
   in between.  A suspended handler is a record: kind is the handler, pc the
   await it is suspended at, chain the blocks it works on (the gossiped block,
   the pushed sub-chain or the chain of the peer), k the index it is at, at
   the store height it writes next, sh and slb the snapshot of the push
   handler, now the Date.now() read by its last checkBlock. *)

Suspended(kind, pc, chain, k, at, sh, slb, now) ==
  [kind |-> kind, pc |-> pc, chain |-> chain, k |-> k, at |-> at, sh |-> sh,
   slb |-> slb, now |-> now]

(* tasks without its t-th entry *)
Drop(ts, t) == [j \in 1..(Len(ts) - 1) |-> IF j < t THEN ts[j] ELSE ts[j + 1]]

(* getTail can read its blocks; getBlock throws when a file is missing *)
TailReadable(b, st) == \A h \in Max(b.height - TAIL, 0)..(b.height - 1) : h \in DOMAIN st

(* addBlock up to the await of hashArgon inside checkBlock *)
addBlockBegin(b, st, block, isBackchecking, now) ==
  LET released == releaseLocks(b, block.timestamp)
  IN [bc |-> released,
      ok |-> /\ TailReadable(released, st)
             /\ checkBlockBeforeHash(released, st, block, isBackchecking, now)]

(* addBlock from the result of hashArgon on *)
addBlockEnd(b, block) ==
  IF checkBlockAfterHash(b, block)
  THEN [bc |-> commitBlock(b, block), ok |-> TRUE]
  ELSE [bc |-> b, ok |-> FALSE]

(* incomingBlock up to the hash of the block *)
BlockArrives(block, now) ==
  /\ Len(tasks) < MaxTasks
  /\ block.hash # bc.lastBlock
  /\ lastSeenBlock # block.hash
  /\ lastSeenBlock' = block.hash
  /\ LET r == addBlockBegin(bc, store, block, FALSE, now)
     IN /\ bc' = r.bc
        /\ tasks' = IF r.ok
                    THEN Append(tasks, Suspended("block", "hash", <<block>>, 1, 0, 0, <<>>, now))
                    ELSE tasks
  /\ UNCHANGED <<store, lastSeenPush, syncActive>>
  /\ UNCHANGED peers

(* incomingBlock from the hash of the block to the await of persistBlock *)
BlockHashed(t) ==
  /\ tasks[t].kind = "block" /\ tasks[t].pc = "hash"
  /\ bc.height < MaxHeight
  /\ LET r == addBlockEnd(bc, tasks[t].chain[1])
     IN /\ bc' = r.bc
        /\ tasks' = IF r.ok
                    THEN [tasks EXCEPT ![t].pc = "persist", ![t].at = r.bc.height - 1]
                    ELSE Drop(tasks, t)
  /\ UNCHANGED <<store, lastSeenBlock, lastSeenPush, syncActive>>
  /\ UNCHANGED peers

BlockPersistedLate(t, written) ==
  /\ tasks[t].kind = "block" /\ tasks[t].pc = "persist"
  /\ store' = IF written THEN writeBlock(store, bc.height - 1, tasks[t].chain[1]) ELSE store
  /\ tasks' = Drop(tasks, t)
  /\ UNCHANGED <<bc, lastSeenBlock, lastSeenPush, syncActive>>
  /\ UNCHANGED peers

(* persistBlock: the write of the file succeeds, or fails and throws *)
BlockPersisted(t, written) ==
  /\ tasks[t].kind = "block" /\ tasks[t].pc = "persist"
  /\ store' = IF written THEN writeBlock(store, tasks[t].at, tasks[t].chain[1]) ELSE store
  /\ tasks' = Drop(tasks, t)
  /\ UNCHANGED <<bc, lastSeenBlock, lastSeenPush, syncActive>>
  /\ UNCHANGED peers

(* The push handler at block k of sub: its transactions are pushed and
   addBlock runs to its await; when the block fails there the snapshot is
   restored, when getTail throws the handler ends as it is *)
pushStep(b, st, sub, k, at, sh, slb, now) ==
  IF k > Len(sub) THEN [bc |-> b, task |-> <<>>]
  ELSE LET r == addBlockBegin(pushAll(b, sub[k].transactions, now, 0), st, sub[k],
                              TRUE, now)
       IN IF r.ok
          THEN [bc |-> r.bc,
                task |-> <<Suspended("push", "hash", sub, k, at, sh, slb, 0)>>]
          ELSE IF ~TailReadable(r.bc, st) \/ checkBlockThrows(sub[k])
          THEN [bc |-> r.bc, task |-> <<>>]
          ELSE [bc |-> [r.bc EXCEPT !.height = sh, !.lastBlock = slb], task |-> <<>>]

(* The push handler up to the hash of its first block *)
PushArrives(sub, now) ==
  /\ Len(tasks) < MaxTasks
  /\ sub # lastSeenPush
  /\ lastSeenPush' = sub
  /\ IF Len(sub) > MAX_PUSH \/ PushScanThrows(bc, store, sub)
        \/ PushRoots(bc, store, sub) = {}
     THEN UNCHANGED <<bc, tasks>>
     ELSE LET i == CHOOSE x \in PushRoots(bc, store, sub) :
                     \A y \in PushRoots(bc, store, sub) : y <= x
              r == pushStep([bc EXCEPT !.height = i + 1,
                                       !.lastBlock = getBlock(store, i).hash],
                            store, sub, 1, i + 1, bc.height, bc.lastBlock, now)
          IN /\ bc' = r.bc
             /\ Len(r.bc.mempool) <= MaxPending
             /\ tasks' = tasks \o r.task
  /\ UNCHANGED <<store, lastSeenBlock, syncActive>>
  /\ UNCHANGED peers

(* The push handler from the hash of block k to the hash of block k+1 *)
PushHashed(t, now) ==
  /\ tasks[t].kind = "push" /\ tasks[t].pc = "hash"
  /\ LET f == tasks[t]
         r == addBlockEnd(bc, f.chain[f.k])
         st == writeBlock(store, f.at, f.chain[f.k])
         n == pushStep(r.bc, st, f.chain, f.k + 1, f.at + 1, f.sh, f.slb, now)
     IN IF ~r.ok
        THEN /\ bc' = [r.bc EXCEPT !.height = f.sh, !.lastBlock = f.slb]
             /\ tasks' = Drop(tasks, t)
             /\ store' = store
        ELSE /\ r.bc.height <= MaxHeight
             /\ Issued(r.bc) <= MaxIssued
             /\ Len(n.bc.mempool) <= MaxPending
             /\ bc' = n.bc
             /\ store' = st
             /\ tasks' = IF n.task = <<>> THEN Drop(tasks, t)
                         ELSE [tasks EXCEPT ![t] = n.task[1]]
  /\ UNCHANGED <<lastSeenBlock, lastSeenPush, syncActive>>
  /\ UNCHANGED peers

(* The head of sync without the test of the latch *)
syncMayStartUnlatched(active, remote, height) == remote > height

(* The test at the head of sync, after its fetch of the remote height *)
syncMayStart(active, remote, height) == remote > height /\ ~active

(* A watchdog tick: nothing happens while a sync is active, else the remote
   height is fetched *)
Tick ==
  /\ ~syncActive
  /\ Len(tasks) < MaxTasks
  /\ tasks' = Append(tasks, Suspended("sync", "wd_height", <<>>, 0, 0, 0, <<>>, 0))
  /\ UNCHANGED <<bc, store, lastSeenBlock, lastSeenPush, syncActive>>
  /\ UNCHANGED peers

(* watchDog after its fetch of the remote height; the peer serves `remote` *)
TickHeight(t, remote) ==
  /\ tasks[t].kind = "sync" /\ tasks[t].pc = "wd_height"
  /\ Len(remote) <= MaxHeight
  /\ IF Len(remote) <= bc.height
     THEN /\ tasks' = Drop(tasks, t)
          /\ \E order \in PeerOrders :
               lastSeenPush' = IF Len(remote) < bc.height
                               THEN watchDogPush(bc, store, lastSeenPush, wscs,
                                                 order).lastSeenPush
                               ELSE lastSeenPush
     ELSE /\ tasks' = [tasks EXCEPT ![t].pc = "sync_height", ![t].chain = remote]
          /\ lastSeenPush' = lastSeenPush
  /\ UNCHANGED <<bc, store, lastSeenBlock, syncActive>>
  /\ UNCHANGED peers

(* sync after its fetch of the remote height, which the peer answers with
   remoteHeight: the latch, and the start of the search for the fork.  The
   frame keeps the remote height in `at` *)
SyncHeight(t, remoteHeight) ==
  /\ tasks[t].kind = "sync" /\ tasks[t].pc = "sync_height"
  /\ IF ~syncMayStart(syncActive, remoteHeight, bc.height)
     THEN /\ tasks' = Drop(tasks, t)
          /\ UNCHANGED <<bc, syncActive>>
     ELSE IF bc.height = 0
     THEN /\ tasks' = Drop(tasks, t)
          /\ UNCHANGED <<bc, syncActive>>
     ELSE /\ tasks' = [tasks EXCEPT ![t].pc = "fork", ![t].k = bc.height - 1,
                                    ![t].at = remoteHeight]
          /\ syncActive' = TRUE
          /\ bc' = bc
  /\ UNCHANGED <<store, lastSeenBlock, lastSeenPush>>
  /\ UNCHANGED peers

(* The fork search after its fetch of the remote block k *)
ForkFetched(t) ==
  /\ tasks[t].kind = "sync" /\ tasks[t].pc = "fork"
  /\ LET f == tasks[t]
         got == fetchRemoteBlock(f.chain, f.k)
     IN IF got = <<>> \/ f.k \notin DOMAIN store
        THEN /\ tasks' = Drop(tasks, t) /\ syncActive' = FALSE /\ bc' = bc
        ELSE IF got[1].hash = getBlock(store, f.k).hash
        THEN /\ bc' = [bc EXCEPT !.height = f.k + 1,
                                 !.lastBlock = getBlock(store, f.k).hash,
                                 !.mempool = <<>>]
             /\ tasks' = [tasks EXCEPT ![t].pc = IF f.k + 1 < f.at
                                                 THEN "fetch" ELSE "mempool",
                                       ![t].k = f.k + 1]
             /\ syncActive' = syncActive
        ELSE IF f.k = 0
        THEN /\ bc' = [bc EXCEPT !.height = 0]
             /\ tasks' = Drop(tasks, t)
             /\ syncActive' = FALSE
        ELSE /\ tasks' = [tasks EXCEPT ![t].k = f.k - 1]
             /\ UNCHANGED <<bc, syncActive>>
  /\ UNCHANGED <<store, lastSeenBlock, lastSeenPush>>
  /\ UNCHANGED peers

(* The restore loop after its fetch of the remote block k *)
BlockFetched(t, now) ==
  /\ tasks[t].kind = "sync" /\ tasks[t].pc = "fetch"
  /\ LET f == tasks[t]
         got == fetchRemoteBlock(f.chain, f.k)
         r == addBlockBegin(pushAll(bc, got[1].transactions, now, 0), store, got[1],
                            TRUE, now)
     IN IF got = <<>>
        THEN /\ tasks' = Drop(tasks, t) /\ syncActive' = FALSE /\ bc' = bc
        ELSE IF ~r.ok
        THEN /\ tasks' = Drop(tasks, t) /\ syncActive' = FALSE /\ bc' = r.bc
        ELSE /\ tasks' = [tasks EXCEPT ![t].pc = "hash"]
             /\ syncActive' = syncActive
             /\ bc' = r.bc
  /\ Len(bc'.mempool) <= MaxPending
  /\ UNCHANGED <<store, lastSeenBlock, lastSeenPush>>
  /\ UNCHANGED peers

(* The restore loop from the hash of block k to the next fetch *)
SyncHashed(t) ==
  /\ tasks[t].kind = "sync" /\ tasks[t].pc = "hash"
  /\ LET f == tasks[t]
         r == addBlockEnd(bc, f.chain[f.k + 1])
     IN IF ~r.ok
        THEN /\ tasks' = Drop(tasks, t) /\ syncActive' = FALSE
             /\ bc' = r.bc /\ store' = store
        ELSE /\ r.bc.height <= MaxHeight
             /\ Issued(r.bc) <= MaxIssued
             /\ bc' = r.bc
             /\ store' = writeBlock(store, f.k, f.chain[f.k + 1])
             /\ tasks' = [tasks EXCEPT ![t].pc = IF f.k + 1 < f.at
                                                 THEN "fetch" ELSE "mempool",
                                       ![t].k = f.k + 1]
             /\ syncActive' = syncActive
  /\ UNCHANGED <<lastSeenBlock, lastSeenPush>>
  /\ UNCHANGED peers

(* sync after its fetch of the remote mempool, keeping the latch *)
MempoolFetchedLatched(t, remoteMempool, now) ==
  /\ tasks[t].kind = "sync" /\ tasks[t].pc = "mempool"
  /\ bc' = pushAll(bc, remoteMempool, now, 0)
  /\ Len(bc'.mempool) <= MaxMempool
  /\ syncActive' = syncActive
  /\ tasks' = Drop(tasks, t)
  /\ UNCHANGED <<store, lastSeenBlock, lastSeenPush>>
  /\ UNCHANGED peers

(* sync after its fetch of the remote mempool *)
MempoolFetched(t, remoteMempool, now) ==
  /\ tasks[t].kind = "sync" /\ tasks[t].pc = "mempool"
  /\ bc' = pushAll(bc, remoteMempool, now, 0)
  /\ Len(bc'.mempool) <= MaxMempool
  /\ syncActive' = FALSE
  /\ tasks' = Drop(tasks, t)
  /\ UNCHANGED <<store, lastSeenBlock, lastSeenPush>>
  /\ UNCHANGED peers

(* The chains the peer of the watchdog serves: the genesis block alone, one
   block on it, and two blocks on it *)
LatchChains ==
  {<<GenesisBlock>>}
  \cup {c \in HonestChains : Len(c) = 2 \/ (Len(c) = 3 /\ c[2].timestamp = 3)}

(* The sub-chains an honest peer pushes *)
HonestPushes ==
  {SubSeq(c, j, Len(c)) : c \in LatchChains, j \in 2..MaxHeight} \ {<<>>}

NextLatch ==
  \/ Tick
  \/ \E t \in 1..Len(tasks) :
       \E remote \in LatchChains : TickHeight(t, remote)
  \/ \E t \in 1..Len(tasks) : SyncHeight(t, Len(tasks[t].chain))
  \/ \E t \in 1..Len(tasks) : ForkFetched(t)
  \/ \E t \in 1..Len(tasks) : \E now \in Nows : BlockFetched(t, now)
  \/ \E t \in 1..Len(tasks) : SyncHashed(t)
  \/ \E t \in 1..Len(tasks) : \E now \in Nows : MempoolFetched(t, <<>>, now)
  \/ \E now \in Nows : \E sub \in HonestPushes : PushArrives(sub, now)
  \/ \E t \in 1..Len(tasks) : \E now \in Nows : PushHashed(t, now)

SpecLatch == InitConnected /\ [][NextLatch]_vars

(* The chains of the peer of the watchdog when it may be faulty: the honest
   ones, one with a block that does not verify, one of another network *)
PullChains ==
  LatchChains
  \cup {<<GenesisBlock, BadChainBlock(GenesisBlock, 1)>>,
        <<AlienGenesis, MkBlock(AlienGenesis, 1, 2, GoodRewards(1, 2), <<>>, 0, Miner)>>}

(* A sync body in progress takes its next step: the awaited fetch or hash
   settles *)
SyncStep ==
  \E t \in 1..Len(tasks) :
    \/ ForkFetched(t)
    \/ \E now \in Nows : BlockFetched(t, now)
    \/ SyncHashed(t)
    \/ \E now \in Nows : MempoolFetched(t, <<>>, now)

(* The watchdog and sync alone.  A sync starts only while the issuance that
   its blocks can add stays within MaxIssued, so that no step of a started
   sync is cut off by the bound.  A peer may answer the height request of
   sync with one more than the blocks it serves. *)
NextPull ==
  \/ Tick
  \/ \E t \in 1..Len(tasks) : \E remote \in PullChains : TickHeight(t, remote)
  \/ \E t \in 1..Len(tasks) :
       \E extra \in {0, 1} :
         /\ Issued(bc) + (MaxHeight - 1) * BLOCK_REWARD <= MaxIssued
         /\ SyncHeight(t, Len(tasks[t].chain) + extra)
  \/ SyncStep

SpecPull == InitConnected /\ [][NextPull]_vars /\ WF_vars(SyncStep)

(* The blocks of the miners at the first two heights, and for each block a
   of the first height a block on it that claims the target of the chain
   before a *)
StaleTargetBlock(a) ==
  LET b == [MkBlock(a, 2, 3, GoodRewards(2, 3), <<>>, 0, Miner) EXCEPT
              !.diff = getDiff(<<GenesisBlock>>)]
  IN [b EXCEPT !.hash = hashArgon(b)]

EarlyBlocks ==
  GoodChainBlocks(GenesisBlock, 1)
  \cup UNION {{MkBlock(a, 2, 3, GoodRewards(2, 3), <<>>, 0, Miner), StaleTargetBlock(a)} :
                a \in GoodChainBlocks(GenesisBlock, 1)}

NextBlocks ==
  \/ \E now \in Nows : \E block \in EarlyBlocks : BlockArrives(block, now)
  \/ \E t \in 1..Len(tasks) : BlockHashed(t)
  \/ \E t \in 1..Len(tasks) : \E written \in BOOLEAN : BlockPersisted(t, written)

SpecBlocks == Init /\ [][NextBlocks]_vars

Next ==
  \/ \E tx \in GossipTxs, now \in Nows : IncomingTX(tx, now)
  \/ \E now \in Nows : \E block \in TipBlocks(bc, store) : IncomingBlock(block, now)

Spec == Init /\ [][Next]_vars

NextMempool ==
  \/ \E tx \in MempoolTxs, now \in Nows : IncomingTX(tx, now)
  \/ \E now \in Nows : \E block \in TipBlocks(bc, store) : IncomingBlock(block, now)

SpecMempool == Init /\ [][NextMempool]_vars

-----------------------------------------------------------------------------
(* The outgoing peer sockets.  wscs[p] is the state of the socket of peer p:
   "connecting", "open", or "none" once the close handler has deleted it and
   the reconnect timer is pending. *)

(* The open handler without the un-silencing of the peer *)
onOpenStillSilenced(attempts, silenced, p) ==
  [attempts |-> [attempts EXCEPT ![p] = 0], silenced |-> silenced]

(* The open handler of a peer socket *)
onOpen(attempts, silenced, p) ==
  [attempts |-> [attempts EXCEPT ![p] = 0], silenced |-> silenced \ {p}]

scheduleReconnect(attempts, silenced, p) ==
  LET newAttempts == attempts[p] + 1
  IN [attempts |-> [attempts EXCEPT ![p] = newAttempts],
      silenced |-> IF newAttempts >= MAX_RECONNECT_ATTEMPTS /\ p \notin silenced
                   THEN silenced \cup {p} ELSE silenced]

(* clearReconnectTimeout: the timer in the map, if any, is cleared *)
clearReconnectTimeout(t) ==
  IF t.mapped THEN [live |-> t.live - 1, mapped |-> FALSE] ELSE t

setReconnectTimeoutUnarmed(t) == [live |-> t.live, mapped |-> TRUE]

(* setTimeout and peerReconnectTimeouts.set at the end of scheduleReconnect *)
setReconnectTimeout(t) == [live |-> t.live + 1, mapped |-> TRUE]

PeerOpen(p) ==
  /\ wscs[p] = "connecting"
  /\ wscs' = [wscs EXCEPT ![p] = "open"]
  /\ LET r == onOpen(peerReconnectAttempts, silencedPeers, p)
     IN /\ peerReconnectAttempts' = r.attempts
        /\ silencedPeers' = r.silenced
  /\ heartbeat' = [heartbeat EXCEPT ![p] = startHeartbeat]
  /\ peerReconnectTimeouts' =
       [peerReconnectTimeouts EXCEPT ![p] = clearReconnectTimeout(@)]
  /\ UNCHANGED <<bc, store, lastSeenBlock, lastSeenPush, syncActive, tasks>>

(* The close handler: of a socket that never opened, of an open one, or of
   one the heartbeat has terminated *)
PeerClose(p) ==
  /\ wscs[p] \in {"connecting", "open", "closing"}
  /\ peerReconnectAttempts[p] < MaxAttempts
  /\ wscs' = [wscs EXCEPT ![p] = "none"]
  /\ LET r == scheduleReconnect(peerReconnectAttempts, silencedPeers, p)
     IN /\ peerReconnectAttempts' = r.attempts
        /\ silencedPeers' = r.silenced
  /\ heartbeat' = [heartbeat EXCEPT ![p].on = FALSE]
  /\ peerReconnectTimeouts' =
       [peerReconnectTimeouts EXCEPT ![p] = setReconnectTimeout(clearReconnectTimeout(@))]
  /\ UNCHANGED <<bc, store, lastSeenBlock, lastSeenPush, syncActive, tasks>>

(* A reconnect timer fires: a new socket is made and the map entry of the
   peer is deleted *)
PeerReconnect(p) ==
  /\ peerReconnectTimeouts[p].live > 0
  /\ wscs' = [wscs EXCEPT ![p] = "connecting"]
  /\ peerReconnectTimeouts' =
       [peerReconnectTimeouts EXCEPT ![p] = [live |-> @.live - 1, mapped |-> FALSE]]
  /\ UNCHANGED <<bc, store, lastSeenBlock, lastSeenPush, syncActive, tasks>>
  /\ UNCHANGED <<peerReconnectAttempts, silencedPeers, heartbeat>>

heartbeatTickEarly(h) ==
  IF ~h.isAlive /\ h.missedPings + 1 >= MAX_MISSED_PINGS - 1
  THEN [hb |-> [h EXCEPT !.missedPings = @ + 1, !.on = FALSE], terminated |-> TRUE]
  ELSE [hb |-> [h EXCEPT !.missedPings = IF h.isAlive THEN @ ELSE @ + 1,
                         !.isAlive = FALSE,
                         !.unanswered = @ + 1],
        terminated |-> FALSE]

(* One firing of the interval of startHeartbeat *)
heartbeatTick(h) ==
  IF ~h.isAlive /\ h.missedPings + 1 >= MAX_MISSED_PINGS
  THEN [hb |-> [h EXCEPT !.missedPings = @ + 1, !.on = FALSE], terminated |-> TRUE]
  ELSE [hb |-> [h EXCEPT !.missedPings = IF h.isAlive THEN @ ELSE @ + 1,
                         !.isAlive = FALSE,
                         !.unanswered = @ + 1],
        terminated |-> FALSE]

HeartbeatTick(p) ==
  /\ heartbeat[p].on
  /\ wscs[p] = "open"
  /\ LET r == heartbeatTick(heartbeat[p])
     IN /\ heartbeat' = [heartbeat EXCEPT ![p] = r.hb]
        /\ wscs' = IF r.terminated THEN [wscs EXCEPT ![p] = "closing"] ELSE wscs
  /\ UNCHANGED <<bc, store, lastSeenBlock, lastSeenPush, syncActive, tasks>>
  /\ UNCHANGED <<peerReconnectAttempts, silencedPeers, peerReconnectTimeouts>>

(* The peer answers a ping: the pong handler of startHeartbeat *)
Pong(p) ==
  /\ wscs[p] = "open"
  /\ heartbeat[p].unanswered > 0
  /\ heartbeat' = [heartbeat EXCEPT ![p].isAlive = TRUE, ![p].missedPings = 0,
                                    ![p].unanswered = 0]
  /\ UNCHANGED <<bc, store, lastSeenBlock, lastSeenPush, syncActive, tasks>>
  /\ UNCHANGED <<wscs, peerReconnectAttempts, silencedPeers, peerReconnectTimeouts>>

NextPeers == \E p \in PeerUrls : PeerOpen(p) \/ PeerClose(p) \/ PeerReconnect(p)

SpecPeers == Init /\ [][NextPeers]_vars

(* A reconnect timer that is pending fires after RECONNECT_DELAY *)
SpecReconnect ==
  Init /\ [][NextPeers]_vars /\ \A p \in PeerUrls : WF_vars(PeerReconnect(p))

(* The peer sockets with their heartbeats; an interval keeps firing while
   it is set *)
NextHeartbeat ==
  \E p \in PeerUrls :
    \/ PeerOpen(p) \/ PeerClose(p) \/ PeerReconnect(p)
    \/ HeartbeatTick(p)
    \/ Pong(p)

SpecHeartbeat ==
  Init /\ [][NextHeartbeat]_vars /\ \A p \in PeerUrls : WF_vars(HeartbeatTick(p))

NextAirdrops ==
  \E now \in Nows :
    \E block \in UNION {GoodBlocks(prev, bc.height, AirdropBodies) :
                           prev \in TipsOf(bc, store)} :
      IncomingBlock(block, now)

SpecAirdrops == Init /\ [][NextAirdrops]_vars

NextRewards ==
  \E now \in Nows :
    \E block \in UNION {GoodBlocks(prev, bc.height, {<<>>, <<MintByA>>})
                          \cup OddBlocks(prev, bc.height) : prev \in TipsOf(bc, store)} :
      IncomingBlock(block, now)

SpecRewards == Init /\ [][NextRewards]_vars

NextReorg ==
  \/ \E now \in Nows : \E sub \in PushInputs(bc, store) : Push(sub, now)
  \/ \E now \in Nows : \E remote \in RemoteChains(bc, store) :
       \E remoteHeight \in {Len(remote), Len(remote) + 1} :
         \E remoteMempool \in {<<>>, <<Transfer2>>} :
           WatchDogSync(remoteHeight, remote, remoteMempool, now)
  \/ WatchDogPush

SpecReorg == InitConnected /\ [][NextReorg]_vars

NextSync ==
  \/ \E now \in Nows : \E sub \in PushInputs(bc, store) : Push(sub, now)
  \/ \E now \in Nows : \E remote \in HonestChains : WatchDogSyncHonest(remote, now)

SpecSync == Init /\ [][NextSync]_vars

(* Gossiped blocks and pushes whose handlers interleave at their awaits:
   the blocks of one chain, and pushes of a sibling chain *)
InterleaveBlocks ==
  LET b1 == MkBlock(GenesisBlock, 1, 2, GoodRewards(1, 2), <<>>, 0, Miner)
  IN {b1, MkBlock(b1, 2, 3, GoodRewards(2, 3), <<>>, 0, Miner)}

InterleavePushes ==
  LET s1 == MkBlock(GenesisBlock, 1, 3, GoodRewards(1, 3), <<>>, 0, Miner)
  IN {<<s1>>, <<s1, MkBlock(s1, 2, 3, GoodRewards(2, 3), <<>>, 0, Miner)>>}

NextInterleave ==
  \/ \E now \in Nows : \E block \in InterleaveBlocks :
       /\ Issued(bc) + 2 * BLOCK_REWARD <= MaxIssued
       /\ BlockArrives(block, now)
  \/ \E t \in 1..Len(tasks) : BlockHashed(t)
  \/ \E t \in 1..Len(tasks) : \E written \in BOOLEAN : BlockPersisted(t, written)
  \/ \E now \in Nows : \E sub \in InterleavePushes :
       /\ Issued(bc) + 2 * BLOCK_REWARD <= MaxIssued
       /\ PushArrives(sub, now)
  \/ \E t \in 1..Len(tasks) : \E now \in Nows : PushHashed(t, now)

SpecInterleave == InitConnected /\ [][NextInterleave]_vars

(* The block files found at startup: chains written by earlier runs, some
   with a block that does not re-apply, as functions of the height *)
DiskStores ==
  {[h \in 0..(Len(c) - 1) |-> c[h + 1]] :
     c \in HonestChains
           \cup {<<GenesisBlock>>, <<GenesisBlock, BadChainBlock(GenesisBlock, 1)>>}
           \cup {<<GenesisBlock, b1, BadChainBlock(b1, 2),
                   MkBlock(BadChainBlock(b1, 2), 3, 3, GoodRewards(3, 3), <<>>, 0, Miner)>> :
                   b1 \in GoodChainBlocks(GenesisBlock, 1)}}

(* The node before `new Blockchain(blocks)`: the controller is about to
   construct the chain from the files and to await waitForSync *)
InitDisk ==
  /\ bc = EmptyBC
  /\ store \in DiskStores
  /\ lastSeenBlock = <<>>
  /\ lastSeenPush = <<>>
  /\ syncActive = FALSE
  /\ tasks = <<Suspended("init", "load", <<>>, 0, 0, 0, <<>>, 0)>>
  /\ wscs = [p \in PeerUrls |-> "none"]
  /\ peerReconnectAttempts = [p \in PeerUrls |-> 0]
  /\ silencedPeers = {}
  /\ peerReconnectTimeouts = [p \in PeerUrls |-> [live |-> 0, mapped |-> FALSE]]
  /\ heartbeat = [p \in PeerUrls |-> HeartbeatOff]

(* The constructor runs over the loaded blocks; the controller goes on to
   make the P2PNetwork when waitForSync resolves and stays at its await
   when it does not *)
Startup(now) ==
  /\ tasks # <<>> /\ tasks[1].kind = "init" /\ tasks[1].pc = "load"
  /\ LET r == loadBlocks(loadGenesis(store[0]), store, 1, Cardinality(DOMAIN store), now)
     IN /\ bc' = r.bc
        /\ tasks' = IF r.synced THEN <<>> ELSE <<[tasks[1] EXCEPT !.pc = "waitForSync"]>>
        /\ wscs' = IF r.synced THEN [p \in PeerUrls |-> "connecting"] ELSE wscs
  /\ UNCHANGED <<store, lastSeenBlock, lastSeenPush, syncActive>>
  /\ UNCHANGED <<peerReconnectAttempts, silencedPeers, peerReconnectTimeouts, heartbeat>>

(* Construction, and gossip once the controller has passed waitForSync *)
NextStartup ==
  \/ \E now \in Nows : Startup(now)
  \/ \E now \in Nows :
       \E block \in UNION {GoodBlocks(prev, bc.height, {<<>>}) \cup OddBlocks(prev, bc.height) :
                              prev \in TipsOf(bc, store)} :
         /\ tasks = <<>>
         /\ IncomingBlock(block, now)

SpecStartup == InitDisk /\ [][NextStartup]_vars

(* The watchdog's push while peer sockets open, close and reconnect, the
   chain growing by gossiped blocks *)
NextWatchdog ==
  \/ \E p \in PeerUrls : PeerOpen(p) \/ PeerClose(p) \/ PeerReconnect(p)
  \/ \E now \in Nows :
       \E block \in UNION {GoodBlocks(prev, bc.height, {<<>>}) : prev \in TipsOf(bc, store)} :
         IncomingBlock(block, now)
  \/ WatchDogPush

SpecWatchdog == Init /\ [][NextWatchdog]_vars

(* Blocks and pushes gossiped by peers, arriving in any order and any
   number of times *)
GossipBlocks(b, st) ==
  UNION {GoodBlocks(prev, b.height, {<<>>})
           \cup {MkBlock(prev, b.height, 2, GoodRewards(b.height, 2), <<>>, 9, Miner)} :
           prev \in TipsOf(b, st)}

GossipPushes(b, st) ==
  UNION {{<<b1>> : b1 \in GoodChainBlocks(st[i], i + 1)} : i \in 0..(b.height - 1)}

NextGossip ==
  \/ \E now \in Nows : \E block \in GossipBlocks(bc, store) : IncomingBlock(block, now)
  \/ \E now \in Nows : \E sub \in GossipPushes(bc, store) : Push(sub, now)

SpecGossip == Init /\ [][NextGossip]_vars

-----------------------------------------------------------------------------
(* Properties *)

(* The transactions of the blocks below the current height, with the height
   and position of each *)
Applied ==
  {<<h, i>> \in (1..(bc.height - 1)) \X (1..8) :
     h \in DOMAIN store /\ i <= Len(store[h].transactions)}

AppliedTx(p) == store[p[1]].transactions[p[2]]

(* C1: every stored block at a height h with 0 < h < height has prev_hash
   equal to the hash of the stored block at height h-1. *)
C1_ChainLinked ==
  \A h \in 1..(bc.height - 1) : store[h].prev_hash = store[h - 1].hash

(* C11: the in-memory balances, locked set and mint registry equal the state
   obtained by replaying the stored blocks 0..height-1 from an empty index. *)
C11_ReplayEquivalence ==
  \E now \in Nows :
    LET r == Rebuild(store, bc.height, now)
    IN /\ r.balances = bc.balances
       /\ r.lockedBalances = bc.lockedBalances
       /\ r.mintedTokens = bc.mintedTokens

(* The blocks of sub are the local blocks at the top heights, the last one
   being the local tip *)
IsLocalSuffix(sub) ==
  /\ Len(sub) >= 1
  /\ Len(sub) <= bc.height - 1
  /\ \A k \in 1..Len(sub) : sub[k] = store[bc.height - Len(sub) + k - 1]

(* C12: handling a push whose blocks are the local blocks at the same heights
   changes neither height, lastBlock, balances, locked balances, the mint
   registry nor the stored blocks. *)
C12_SameTipPushNoOp ==
  [][(lastSeenPush' # lastSeenPush /\ IsLocalSuffix(lastSeenPush'))
       => /\ bc'.height = bc.height
          /\ bc'.lastBlock = bc.lastBlock
          /\ bc'.balances = bc.balances
          /\ bc'.lockedBalances = bc.lockedBalances
          /\ bc'.mintedTokens = bc.mintedTokens
          /\ store' = store]_vars

(* C13: a pull-sync that completes against a peer at height H leaves local
   height = H and, at every height below H, the peer's block in the store. *)
C13_SyncEquivalence ==
  \A remote \in HonestChains, now \in Nows :
    LET r == sync(bc, store, Len(remote), remote, <<>>, now)
    IN (Len(remote) > bc.height /\ r.ok)
         => /\ r.bc.height = Len(remote)
            /\ \A h \in 0..(Len(remote) - 1) : r.store[h] = remote[h + 1]

(* A handler inside the body of sync, between the latch and its release *)
InSyncBody(f) == f.kind = "sync" /\ f.pc \in {"fork", "fetch", "hash", "mempool"}

(* C14: no pushed sub-chain is being applied while a pull-sync is active,
   and the other way round. *)
C14_SyncExcludesPush ==
  ~\E t1, t2 \in 1..Len(tasks) : InSyncBody(tasks[t1]) /\ tasks[t2].kind = "push"

(* C15: at most one execution of the body of sync is in progress. *)
C15_OneSyncBody ==
  Cardinality({t \in 1..Len(tasks) : InSyncBody(tasks[t])}) <= 1

(* A sync is in its body while a second watchdog tick, which started before
   the latch was set, waits at the head of sync. *)
C15_Witness ==
  \E t1, t2 \in 1..Len(tasks) :
    /\ InSyncBody(tasks[t1])
    /\ tasks[t2].kind = "sync" /\ tasks[t2].pc = "sync_height"
    /\ syncActive

(* C16: a block that addBlock accepts passes every check of checkBlock
   against the state in which its effects are applied. *)
C16_ChecksAgainstAppliedState ==
  \A t \in 1..Len(tasks) :
    (/\ tasks[t].kind = "block" /\ tasks[t].pc = "hash"
     /\ TailReadable(bc, store)
     /\ addBlockEnd(bc, tasks[t].chain[1]).ok)
      => checkBlock(bc, store, tasks[t].chain[1], FALSE, FALSE, tasks[t].now)

(* C17: the store holds a block for each height below the current height,
   and the one at height-1 is the block that lastBlock names. *)
C17_StoreNotBehind ==
  \A h \in 0..(bc.height - 1) :
    /\ h \in DOMAIN store
    /\ h = bc.height - 1 => store[h].hash = bc.lastBlock

(* C18: the mempool holds at most one pending transaction of each sender
   other than "network" and "mint". *)
C18_OnePendingPerSender ==
  \A i, j \in 1..Len(bc.mempool) :
    (i # j /\ bc.mempool[i].sender \notin Reserved)
      => bc.mempool[i].sender # bc.mempool[j].sender

(* The mempool of b has an entry with the signature, amount, nonce, sender,
   receiver and token of tx *)
InMempool(b, tx) == \E i \in 1..Len(b.mempool) : SameTx(b.mempool[i], tx)

(* C20: a block that checkBlock accepts has every transaction of a sender
   other than "network" and "mint" pending in the mempool. *)
C20_BlockTxsPending ==
  \A now \in Nows : \A block \in TipBlocks(bc, store) :
    checkBlock(bc, store, block, FALSE, FALSE, now)
      => \A i \in 1..Len(block.transactions) :
           block.transactions[i].sender \notin Reserved
             => InMempool(bc, block.transactions[i])

(* C19: an accepted pushTX of a mint with airdrop a > 0 appends two entries,
   the mint and a transaction of sender "mint" to the minter of amount a in
   the token of the mint with signature "mint"; with airdrop 0 it appends the
   mint alone; a rejected pushTX, and a pushTX of sender "network" or "mint",
   leaves the mempool as it is. *)
C19_PushTXAppends ==
  \A tx \in MempoolTxs : \A now \in Nows :
    LET r == pushTX(bc, tx, now, 0)
        n == Len(bc.mempool)
        added == SubSeq(r.bc.mempool, n + 1, Len(r.bc.mempool))
    IN /\ SubSeq(r.bc.mempool, 1, n) = bc.mempool
       /\ (r.ok /\ HasMint(tx) /\ MintOf(tx).airdrop > 0)
            => /\ Len(added) = 2
               /\ \E i, j \in 1..2 :
                    /\ i # j
                    /\ added[i] = tx
                    /\ added[j].sender = "mint"
                    /\ added[j].receiver = tx.sender
                    /\ added[j].amount = MintOf(tx).airdrop
                    /\ added[j].token = MintOf(tx).token
                    /\ added[j].signature = MintSig
       /\ (r.ok /\ HasMint(tx) /\ MintOf(tx).airdrop = 0) => added = <<tx>>
       /\ (~r.ok \/ tx.sender \in Reserved) => r.bc.mempool = bc.mempool

(* The mint of A with airdrop 1 was admitted to an empty mempool, which now
   holds the airdrop and the mint, and the mint without airdrop, the airdrop
   sent by a peer and a copy of the mint are turned down in this state. *)
C19_Witness ==
  /\ Len(bc.mempool) = 2
  /\ bc.mempool[2] = MintByA
  /\ bc.mempool[1].sender = "mint" /\ bc.mempool[1].receiver = "A"
  /\ \E now \in Nows : ~pushTX(bc, AirdropToA, now, 0).ok

(* The mint without airdrop was admitted and stands alone in the mempool. *)
C19_WitnessNoAirdrop == bc.mempool = <<MintNoAirdrop>>

(* C2: for each non-reserved sender, once a transaction with nonce n is in an
   accepted block, lastNonce(sender) >= n and checkTX rejects every
   transaction of that sender with a nonce <= n. *)
C2_NonceMonotone ==
  \A p \in Applied :
    AppliedTx(p).sender \notin Reserved =>
      /\ Get(bc.lastNonces, AppliedTx(p).sender) >= AppliedTx(p).nonce
      /\ \A t \in CheckTxs :
           (t.sender = AppliedTx(p).sender /\ t.nonce <= AppliedTx(p).nonce)
             => ~checkTX(bc, t, FALSE, FALSE, 0) /\ ~checkTX(bc, t, FALSE, TRUE, 0)

(* C3: every non-reserved transaction, with or without a mint object, whose
   signature is in the spent-signature cache is rejected by checkTX at mempool
   admission and inside block validation. *)
C3_SpentSignatureRejected ==
  \A t \in CheckTxs :
    (t.sender \notin Reserved /\ InSeq(t.signature, bc.usedSignatures))
      => ~checkTX(bc, t, FALSE, FALSE, 0) /\ ~checkTX(bc, t, FALSE, TRUE, 0)

(* C4: every balance entry of a non-reserved address is >= 0, for the native
   coin and for every token. *)
C4_BalancesNonNegative ==
  \A k \in DOMAIN bc.balances : k[1] \notin Reserved => bc.balances[k] >= 0

CountTxs(block, P(_)) ==
  Cardinality({i \in 1..Len(block.transactions) : P(block.transactions[i])})

ExactlyOneOfEach(block) ==
  /\ CountTxs(block, IsDevFeeTx) = 1
  /\ CountTxs(block, IsRewardTx) = 1

StoredBlocks == {store[h] : h \in (1..(bc.height - 1)) \cap DOMAIN store}

(* checkBlock accepts `block` in the current state, live or replaying *)
Accepts(block) ==
  \E now \in Nows, isBackchecking \in BOOLEAN :
    checkBlock(bc, store, block, isBackchecking, FALSE, now)

(* C5: every block that checkBlock accepts holds exactly one dev-fee
   transaction and exactly one mining-reward transaction; a block with none or
   with two of either kind is rejected. *)
C5_OneDevFeeOneReward ==
  /\ \A block \in StoredBlocks : ExactlyOneOfEach(block)
  /\ \A block \in TipBlocks(bc, store) : Accepts(block) => ExactlyOneOfEach(block)

(* A block was accepted, and a block with two dev fees and a block with no
   reward were offered on the new tip and turned down. *)
C5_Witness ==
  /\ bc.height >= 2
  /\ ExactlyOneOfEach(store[bc.height - 1])
  /\ \E block \in TipBlocks(bc, store) :
       /\ block.hash = lastSeenBlock
       /\ CountTxs(block, IsDevFeeTx) = 2
       /\ ~Accepts(block)
  /\ \E block \in TipBlocks(bc, store) : CountTxs(block, IsRewardTx) = 0 /\ ~Accepts(block)

RewardAmountsRight(block, h) ==
  \A i \in 1..Len(block.transactions) :
    LET tx == block.transactions[i]
    IN /\ IsDevFeeTx(tx) => tx.amount = DevFeeAmount(h)
       /\ (IsRewardTx(tx) /\ tx.token = "") => tx.amount = MinerRewardAmount(h)
       /\ (IsRewardTx(tx) /\ tx.token # "") => tx.token \in DOMAIN bc.mintedTokens

(* C6: in every block accepted at height h the dev-fee transaction pays
   reward(h)*DEV_FEE and a native mining reward pays reward(h)*(1-DEV_FEE); a
   token reward names a minted token. *)
C6_RewardAmounts ==
  \A h \in (1..(bc.height - 1)) \cap DOMAIN store : RewardAmountsRight(store[h], h)

AppliedMints(token) ==
  {p \in Applied : HasMint(AppliedTx(p)) /\ MintOf(AppliedTx(p)).token = token}

(* C7: across the accepted blocks at most one applied transaction carries a
   mint object for a given token name. *)
C7_MintOnce == \A token \in {"FOO"} : Cardinality(AppliedMints(token)) <= 1

AppliedAirdrops(token) ==
  {p \in Applied : AppliedTx(p).sender = "mint" /\ AppliedTx(p).token = token}

(* C8: across the accepted blocks at most one transaction with sender "mint"
   is applied for a given token. *)
C8_AirdropOnce == \A token \in {"FOO"} : Cardinality(AppliedAirdrops(token)) <= 1

(* C9: if addBlock returns false the chain state is what it was before the
   call. *)
C9_RejectedBlockChangesNothing ==
  \A block \in TipBlocks(bc, store), now \in Nows, isBackchecking \in BOOLEAN :
    LET r == addBlock(bc, store, block, isBackchecking, FALSE, now)
    IN ~r.ok => r.bc = bc

(* A block was written or replaced in the store in this step *)
AcceptedInStep(block) ==
  \E h \in DOMAIN store' :
    store'[h] = block /\ (h \notin DOMAIN store \/ store[h] # block)

(* C10: a locked entry leaves the locked list only in a step that accepts a
   block whose timestamp is >= its unlock time. *)
C10_LockedUntilAccepted ==
  [][\A i \in 1..Len(bc.lockedBalances) :
       ~InSeq(bc.lockedBalances[i], bc'.lockedBalances) =>
         \E h \in DOMAIN store' :
           AcceptedInStep(store'[h]) /\ store'[h].timestamp >= bc.lockedBalances[i].unlock]_vars

(* C21: every transaction of sender "mint" in an accepted block has the
   signature "mint", names a minted token, has the amount of the airdrop of
   that token and has no unlock. *)
C21_AirdropsWellFormed ==
  \A block \in StoredBlocks : \A i \in 1..Len(block.transactions) :
    LET tx == block.transactions[i]
    IN tx.sender = "mint"
         => /\ tx.signature = MintSig
            /\ tx.unlock = 0
            /\ tx.token \in DOMAIN bc.mintedTokens
            /\ tx.amount = bc.mintedTokens[tx.token].airdrop

(* C22: every transaction of a sender other than "network" and "mint" in
   the mempool or in an accepted block carries a signature that verifies
   under the key of its sender. *)
C22_SignedBySender ==
  /\ \A i \in 1..Len(bc.mempool) :
       bc.mempool[i].sender \notin Reserved => VerifyTx(bc.mempool[i])
  /\ \A block \in StoredBlocks : \A i \in 1..Len(block.transactions) :
       block.transactions[i].sender \notin Reserved => VerifyTx(block.transactions[i])

(* C22, for accepted blocks alone: every transaction of a sender other than
   "network" and "mint" in an accepted block verifies under the key of its
   sender. *)
C22_BlocksSignedBySender ==
  \A block \in StoredBlocks : \A i \in 1..Len(block.transactions) :
    block.transactions[i].sender \notin Reserved => VerifyTx(block.transactions[i])

(* C23: a peer is silenced exactly when its closes since the last open
   number MAX_RECONNECT_ATTEMPTS or more, and a peer whose socket is open is
   not silenced and has no reconnect attempts counted. *)
C23_SilencedAfterThree ==
  \A p \in PeerUrls :
    /\ p \in silencedPeers <=> peerReconnectAttempts[p] >= MAX_RECONNECT_ATTEMPTS
    /\ wscs[p] = "open" => p \notin silencedPeers /\ peerReconnectAttempts[p] = 0

(* One peer has just been silenced by its third close in a row while the
   other is connected. *)
C23_Witness ==
  \E p, q \in PeerUrls :
    /\ p \in silencedPeers /\ peerReconnectAttempts[p] = MAX_RECONNECT_ATTEMPTS
    /\ wscs[p] = "none"
    /\ wscs[q] = "open"

(* The sum of the amounts of the entries of locks[i..] held for (addr, token) *)
RECURSIVE LockedSum(_, _, _, _)
LockedSum(locks, i, addr, token) ==
  IF i > Len(locks) THEN 0
  ELSE (IF locks[i].addr = addr /\ locks[i].token = token THEN locks[i].amount ELSE 0)
       + LockedSum(locks, i + 1, addr, token)

(* C24: calculateLocked(addr, token) is the sum of the amounts of the
   locked-balance entries held for (addr, token). *)
C24_LockedIsSum ==
  \A addr \in {"A", "B", DEV_WALLET} : \A token \in {"", "FOO"} :
    calculateLocked(bc, addr, token) = LockedSum(bc.lockedBalances, 1, addr, token)

(* The height below the first block of a push: the highest local height
   whose block is the parent of sub[1] *)
PushRoot(sub) ==
  CHOOSE x \in PushRoots(bc, store, sub) : \A y \in PushRoots(bc, store, sub) : y <= x

(* A push that finds its parent and is not too long *)
PushStarts(sub) == Len(sub) <= MAX_PUSH /\ PushRoots(bc, store, sub) # {}

(* C25: when a block of a pushed sub-chain fails addBlock, the handler ends
   with the height and lastBlock it started with, and the blocks of the
   sub-chain from the failed one on are not written. *)
C25_FailedPushRestores ==
  \A now \in Nows : \A sub \in PushInputs(bc, store) :
    LET r == onPush(bc, store, sub, now)
    IN (PushStarts(sub) /\ ~r.ok)
         => /\ r.bc.height = bc.height
            /\ r.bc.lastBlock = bc.lastBlock
            /\ \E f \in 0..(Len(sub) - 1) : \A k \in 1..Len(sub) :
                 LET h == PushRoot(sub) + k
                 IN IF k <= f THEN r.store[h] = sub[k]
                    ELSE IF h \in DOMAIN store
                      THEN h \in DOMAIN r.store /\ r.store[h] = store[h]
                    ELSE h \notin DOMAIN r.store

(* C26: when a block of a pushed sub-chain fails addBlock, no stored block
   is replaced by a block of the sub-chain and the push is not sent on to
   the peers. *)
C26_FailedPushNotPersisted ==
  \A now \in Nows : \A sub \in PushInputs(bc, store) :
    LET r == onPush(bc, store, sub, now)
    IN (PushStarts(sub) /\ ~r.ok)
         => /\ \A h \in DOMAIN store : r.store[h] = store[h]
            /\ ~r.forwarded

(* C26, the store alone: a failed push replaces no stored block. *)
C26_FailedPushKeepsStore ==
  \A now \in Nows : \A sub \in PushInputs(bc, store) :
    LET r == onPush(bc, store, sub, now)
    IN (PushStarts(sub) /\ ~r.ok) => \A h \in DOMAIN store : r.store[h] = store[h]

(* C27: a push of k <= MAX_PUSH blocks on the local block of height i that
   applies completely leaves height = i + 1 + k, lastBlock = the hash of the
   last pushed block and the pushed blocks at the heights i + 1 .. i + k; a
   push of more than MAX_PUSH blocks changes nothing. *)
C27_PushApplied ==
  \A now \in Nows : \A sub \in PushInputs(bc, store) :
    LET r == onPush(bc, store, sub, now)
    IN /\ (PushStarts(sub) /\ r.ok)
            => /\ r.bc.height = PushRoot(sub) + 1 + Len(sub)
               /\ r.bc.lastBlock = sub[Len(sub)].hash
               /\ \A k \in 1..Len(sub) : r.store[PushRoot(sub) + k] = sub[k]
       /\ Len(sub) > MAX_PUSH => r.bc = bc /\ r.store = store

(* A push of two blocks has been applied on the local tip of height 1, and a
   push of more than MAX_PUSH blocks is on offer. *)
C27_Witness ==
  /\ Len(lastSeenPush) = 2
  /\ bc.height = 3
  /\ bc.lastBlock = lastSeenPush[2].hash
  /\ store[1] = lastSeenPush[1] /\ store[2] = lastSeenPush[2]
  /\ \E sub \in PushInputs(bc, store) : Len(sub) > MAX_PUSH

(* C28: a pull-sync that has set the latch clears it in the end, whether it
   completes or fails. *)
C28_LatchCleared == syncActive ~> ~syncActive

(* A sync has found no common ancestor and has ended: the height is 0 and
   the latch is clear. *)
C28_Witness == bc.height = 0 /\ ~syncActive /\ tasks = <<>>

(* incomingBlock after addBlock has returned success: the block is
   persisted, onBlock and onMint are called and true is returned; a
   persistBlock that throws is caught and false is returned.  The block
   branch of onPeerPayload rebroadcasts exactly when true is returned. *)
incomingBlockTail(block, success, written) ==
  IF ~success THEN [returned |-> FALSE, hooks |-> {}]
  ELSE IF ~written THEN [returned |-> FALSE, hooks |-> {}]
  ELSE [returned |-> TRUE,
        hooks |-> {<<"onBlock", block.hash>>}
                  \cup {<<"onMint", block.transactions[i].signature>> :
                          i \in {j \in 1..Len(block.transactions) :
                                   /\ HasMint(block.transactions[j])
                                   /\ block.transactions[j].token # ""}}]

(* C29: a transaction received from a peer is rebroadcast exactly when
   pushTX admitted it and a rejected one leaves the mempool unchanged; a
   block received from a peer that addBlock has accepted is rebroadcast and
   announced through onBlock, whatever the result of persisting it. *)
C29_RebroadcastIffAccepted ==
  /\ \A tx \in GossipTxs : \A now \in Nows :
       LET r == incomingTX(bc, tx, now, 0)
       IN ~r.ok => r.bc.mempool = bc.mempool
  /\ \A t \in 1..Len(tasks) :
       (tasks[t].kind = "block" /\ tasks[t].pc = "persist")
         => \A written \in BOOLEAN :
              LET o == incomingBlockTail(tasks[t].chain[1], TRUE, written)
              IN /\ o.returned
                 /\ <<"onBlock", tasks[t].chain[1].hash>> \in o.hooks

(* C30: a block payload whose hash is lastBlock or the last seen block hash
   is dropped: addBlock is not called, nothing is rebroadcast and no state
   changes; a push payload identical to the last seen push is dropped
   without reading or changing the chain. *)
C30_SeenPayloadsDropped ==
  /\ \A now \in Nows :
       \A block \in GossipBlocks(bc, store) \cup StoredBlocks :
         (block.hash = bc.lastBlock \/ block.hash = lastSeenBlock)
           => LET r == onBlockPayload(bc, store, lastSeenBlock, block, now)
              IN /\ ~r.validated /\ ~r.forwarded
                 /\ r.bc = bc /\ r.store = store /\ r.lastSeenBlock = lastSeenBlock
  /\ \A now \in Nows : \A sub \in GossipPushes(bc, store) :
       sub = lastSeenPush
         => LET r == onPushPayload(bc, store, lastSeenPush, sub, now)
            IN /\ ~r.handled /\ ~r.forwarded
               /\ r.bc = bc /\ r.store = store /\ r.lastSeenPush = lastSeenPush

(* The most recently seen block was rejected and can arrive again, it would
   be accepted were it validated now, and the last seen push can arrive
   again. *)
C30_Witness ==
  /\ lastSeenPush \in GossipPushes(bc, store)
  /\ \E now \in Nows :
       \E block \in GossipBlocks(bc, store) :
         /\ block.hash = lastSeenBlock
         /\ block.hash # bc.lastBlock
         /\ addBlock(bc, store, block, FALSE, FALSE, now).ok

(* The heartbeat of a socket: its interval is set only while the socket is
   open, no ping is sent after MAX_MISSED_PINGS unanswered ones, and the
   socket is terminated only when MAX_MISSED_PINGS pings in a row are
   unanswered. *)
HeartbeatSafe ==
  \A p \in PeerUrls :
    /\ heartbeat[p].on => wscs[p] = "open"
    /\ heartbeat[p].unanswered <= MAX_MISSED_PINGS
    /\ wscs[p] = "closing" => /\ heartbeat[p].unanswered = MAX_MISSED_PINGS
                              /\ heartbeat[p].missedPings = MAX_MISSED_PINGS
    /\ heartbeat[p].on =>
         heartbeat[p].missedPings =
           IF heartbeat[p].isAlive THEN 0 ELSE heartbeat[p].unanswered - 1

(* C31: the heartbeat terminates a socket only after three consecutive
   unanswered pings, a pong resets the count, the interval does not fire
   after the socket is terminated or closed, and a socket with three
   unanswered pings is terminated or closed unless a pong arrives. *)
C31_HeartbeatTerminates ==
  /\ []HeartbeatSafe
  /\ \A p \in PeerUrls :
       (wscs[p] = "open" /\ heartbeat[p].unanswered = MAX_MISSED_PINGS)
         ~> (wscs[p] # "open" \/ heartbeat[p].unanswered = 0)

(* The heartbeat has terminated the socket of one peer after three
   unanswered pings while the socket of the other, with two unanswered
   pings, is still open. *)
C31_Witness ==
  /\ wscs["p1"] = "closing"
  /\ heartbeat["p1"].unanswered = MAX_MISSED_PINGS
  /\ wscs["p2"] = "open"
  /\ heartbeat["p2"].unanswered = 2

(* At most one reconnect timer of a peer is pending, it is the one in the
   map, and one is pending exactly when the peer has no socket. *)
ReconnectTimerSafe ==
  \A p \in PeerUrls :
    /\ peerReconnectTimeouts[p].live <= 1
    /\ peerReconnectTimeouts[p].mapped <=> peerReconnectTimeouts[p].live = 1
    /\ wscs[p] = "none" <=> peerReconnectTimeouts[p].live = 1
    /\ wscs[p] = "open" => peerReconnectTimeouts[p].live = 0

(* C32: after every close of a peer socket, silenced or not, a reconnect
   timer is pending and a new socket is made when it fires; at most one
   timer per peer is pending, and none while the socket is open. *)
C32_ReconnectAfterClose ==
  /\ []ReconnectTimerSafe
  /\ \A p \in PeerUrls : (wscs[p] = "none") ~> (wscs[p] = "connecting")

(* A silenced peer has just closed again and its reconnect timer is
   pending. *)
C32_Witness ==
  /\ "p1" \in silencedPeers
  /\ peerReconnectAttempts["p1"] > MAX_RECONNECT_ATTEMPTS
  /\ wscs["p1"] = "none"
  /\ peerReconnectTimeouts["p1"].live = 1

(* C33: the watchdog's push reaches every peer socket that is open,
   whatever the state of the other sockets. *)
C33_PushReachesOpenPeers ==
  \A order \in PeerOrders :
    bc.height > 1
      => watchDogPush(bc, store, lastSeenPush, wscs, order).delivered
           = {p \in PeerUrls : wscs[p] = "open"}

(* The controller waits at waitForSync after a block failed to re-apply *)
InitHalted == tasks # <<>> /\ tasks[1].kind = "init" /\ tasks[1].pc = "waitForSync"

(* After a failed initialization the chain stands below the block that
   failed; after a completed one, before any gossip, it stands at the number
   of block files. *)
InitOutcome ==
  /\ InitHalted => /\ bc.height < Cardinality(DOMAIN store)
                   /\ bc.lastBlock = store[bc.height - 1].hash
                   /\ \A p \in PeerUrls : wscs[p] = "none"
  /\ (tasks = <<>> /\ lastSeenBlock = <<>>) => bc.height = Cardinality(DOMAIN store)

(* C34: when a persisted block fails to re-apply, initialization halts: no
   later block is applied, waitForSync does not resolve, and the node takes
   no further step (no P2PNetwork, no gossip). *)
C34_FailedInitHalts == []InitOutcome /\ [][~InitHalted]_vars

(* The second block after the genesis block failed to re-apply: the chain
   stands at height 2 with four block files. *)
C34_Witness ==
  /\ InitHalted
  /\ bc.height = 2
  /\ Cardinality(DOMAIN store) = 4

(* C35: the height after the push handler, whatever the pushed sub-chain,
   is at least the height before it. *)
C35_PushKeepsHeight ==
  \A now \in Nows : \A sub \in PushInputs(bc, store) :
    onPush(bc, store, sub, now).bc.height >= bc.height

(* C36: with no block, push or sync handler in progress and height > 0,
   lastBlock is the hash of the stored block at height - 1. *)
C36_LastBlockIsStoredTip ==
  (tasks = <<>> /\ bc.height > 0)
    => /\ (bc.height - 1) \in DOMAIN store
       /\ bc.lastBlock = store[bc.height - 1].hash

(* C37: the height that a gossiped block's handler hands to persistBlock is
   the height at which addBlock applied the block, and the write that ends
   the handler puts the block at that height, whatever the height is by
   then. *)
C37_WrittenAtAppliedHeight ==
  [][\A t \in 1..Len(tasks) :
       /\ (/\ tasks[t].kind = "block" /\ tasks[t].pc = "hash"
           /\ Len(tasks') = Len(tasks) /\ tasks'[t].pc = "persist")
            => /\ bc'.height = bc.height + 1
               /\ tasks'[t].at = bc.height
       /\ (/\ tasks[t].kind = "block" /\ tasks[t].pc = "persist"
           /\ tasks' = Drop(tasks, t) /\ store' # store)
            => store' = writeBlock(store, tasks[t].at, tasks[t].chain[1])]_vars

(* A gossiped block has been applied and waits for its write while a push
   has set the height back below the height of the block. *)
C37_Witness ==
  \E t \in 1..Len(tasks) :
    /\ tasks[t].kind = "block" /\ tasks[t].pc = "persist"
    /\ tasks[t].at > bc.height - 1

(* C38: every transaction with sender "network" in a stored block below
   the height is the block's native dev fee to DEV_WALLET or its one mining
   reward: none pays DEV_WALLET in a token, and a block holds at most one
   reward. *)
C38_NetworkTxsAreRewards ==
  \A block \in StoredBlocks :
    /\ \A i \in 1..Len(block.transactions) :
         block.transactions[i].sender = "network"
           => \/ IsDevFeeTx(block.transactions[i])
              \/ IsRewardTx(block.transactions[i])
    /\ Cardinality({i \in 1..Len(block.transactions) :
                      IsRewardTx(block.transactions[i])}) <= 1

-----------------------------------------------------------------------------
(* Conservation of value *)

(* A transfer of A to itself, signed by A *)
SelfTransfer == Tx("A", "A", "A", 1, 2, 2, "", 0, NoMint)

ConserveBodies == {<<>>, <<Transfer2>>, <<LockedTransfer>>, <<SelfTransfer>>,
                   <<MintByA, AirdropToA>>}

NextConserve ==
  \E now \in Nows :
    \E block \in UNION {GoodBlocks(prev, bc.height, ConserveBodies)
                          \cup OddBlocks(prev, bc.height) : prev \in TipsOf(bc, store)} :
      IncomingBlock(block, now)

SpecConserve == Init /\ [][NextConserve]_vars

RECURSIVE SumBalances(_, _)
SumBalances(m, keys) ==
  IF keys = {} THEN 0
  ELSE LET k == CHOOSE x \in keys : TRUE
       IN m[k] + SumBalances(m, keys \ {k})

RECURSIVE SumLocked(_, _)
SumLocked(locks, token) ==
  IF locks = <<>> THEN 0
  ELSE (IF Head(locks).token = token THEN Head(locks).amount ELSE 0)
       + SumLocked(Tail(locks), token)

TotalOf(b, token) ==
  SumBalances(b.balances, {k \in DOMAIN b.balances : k[2] = token})
    + SumLocked(b.lockedBalances, token)

TokensOf(b) ==
  {k[2] : k \in DOMAIN b.balances}
    \cup {b.lockedBalances[i].token : i \in 1..Len(b.lockedBalances)}

(* C39: for the native coin and for every token, the balance entries (the
   negative entries of "network" and "mint" included) and the locked amounts
   sum to 0 after every addBlock call, accepted or rejected. *)
C39_ValueConserved == \A token \in TokensOf(bc) : TotalOf(bc, token) = 0

-----------------------------------------------------------------------------
(* The bootstrap of index.ts: a node with no block files pulls the blocks
   of the seed peer *)

(* The chains the seed peer serves from /height and /blocks *)
SeedChains ==
  HonestChains
    \cup {<<GenesisBlock>>, <<GenesisBlock, BadChainBlock(GenesisBlock, 1)>>}
    \cup {<<GenesisBlock, b1, BadChainBlock(b1, 2)>> : b1 \in GoodChainBlocks(GenesisBlock, 1)}
    \cup UNION {{<<GenesisBlock, b1>>,
                   <<GenesisBlock, b1, MkBlock(b1, 2, 3, GoodRewards(2, 3), <<>>, 0, Miner)>>} :
                  b1 \in GoodBlocks(GenesisBlock, 1,
                                   {<<MintByA>>, <<LockedTransfer>>, <<MintByA, AirdropToA>>})}

(* loadLocalBlocks found no file and PEER is set: new Blockchain([]) *)
InitBootstrap ==
  /\ bc = EmptyBC
  /\ store = [h \in {} |-> GenesisBlock]
  /\ lastSeenBlock = <<>>
  /\ lastSeenPush = <<>>
  /\ syncActive = FALSE
  /\ tasks = <<Suspended("bootstrap", "height", <<>>, 0, 0, 0, <<>>, 0)>>
  /\ wscs = [p \in PeerUrls |-> "none"]
  /\ peerReconnectAttempts = [p \in PeerUrls |-> 0]
  /\ silencedPeers = {}
  /\ peerReconnectTimeouts = [p \in PeerUrls |-> [live |-> 0, mapped |-> FALSE]]
  /\ heartbeat = [p \in PeerUrls |-> HeartbeatOff]

(* The answers of /height and /blocks?start=0&end=remoteHeight *)
BootstrapFetch(chain) ==
  /\ tasks # <<>> /\ tasks[1].kind = "bootstrap" /\ tasks[1].pc = "height"
  /\ bc.height < Len(chain)
  /\ tasks' = <<[tasks[1] EXCEPT !.pc = "blocks", !.chain = chain, !.k = 1]>>
  /\ UNCHANGED <<bc, store, lastSeenBlock, lastSeenPush, syncActive>>
  /\ UNCHANGED peers

(* One round of the loop over the fetched blocks; the clock of the frame
   is the Date.now() of the last round and never runs backwards *)
bootstrapBlock(b, st, block, blockHeight, now) ==
  IF blockHeight = 0
  THEN [bc |-> [b EXCEPT !.lastBlock = block.hash, !.height = @ + 1],
        store |-> Put(st, 0, block), pc |-> "blocks"]
  ELSE LET r == addBlock([b EXCEPT !.mempool = @ \o block.transactions], st, block,
                         TRUE, FALSE, now)
       IN IF r.threw THEN [bc |-> r.bc, store |-> st, pc |-> "synced"]
          ELSE IF ~r.ok THEN [bc |-> r.bc, store |-> st, pc |-> "exit"]
          ELSE [bc |-> r.bc, store |-> Put(st, blockHeight, block), pc |-> "blocks"]

BootstrapBlock(now) ==
  /\ tasks # <<>> /\ tasks[1].kind = "bootstrap" /\ tasks[1].pc = "blocks"
  /\ tasks[1].k <= Len(tasks[1].chain)
  /\ now >= tasks[1].now
  /\ LET r == bootstrapBlock(bc, store, tasks[1].chain[tasks[1].k], tasks[1].k - 1, now)
     IN /\ bc' = r.bc
        /\ store' = r.store
        /\ tasks' = <<[tasks[1] EXCEPT !.pc = r.pc, !.k = @ + 1, !.now = now]>>
  /\ UNCHANGED <<lastSeenBlock, lastSeenPush, syncActive>>
  /\ UNCHANGED peers

(* The loop is over: syncing = false *)
BootstrapDone ==
  /\ tasks # <<>> /\ tasks[1].kind = "bootstrap" /\ tasks[1].pc = "blocks"
  /\ tasks[1].k > Len(tasks[1].chain)
  /\ tasks' = <<[tasks[1] EXCEPT !.pc = "synced"]>>
  /\ UNCHANGED <<bc, store, lastSeenBlock, lastSeenPush, syncActive>>
  /\ UNCHANGED peers

NextBootstrap ==
  \/ \E chain \in SeedChains : BootstrapFetch(chain)
  \/ \E now \in Nows : BootstrapBlock(now)
  \/ BootstrapDone

SpecBootstrap == InitBootstrap /\ [][NextBootstrap]_vars

(* The bootstrap pulled every block of the seed's chain *)
BootstrapComplete ==
  /\ tasks # <<>> /\ tasks[1].kind = "bootstrap" /\ tasks[1].pc = "synced"
  /\ bc.height = Len(tasks[1].chain)

SameIndex(b1, b2) ==
  /\ b1.balances = b2.balances
  /\ b1.lockedBalances = b2.lockedBalances
  /\ b1.mintedTokens = b2.mintedTokens

(* C40: a node that bulk-pulled blocks 0..H-1 from the seed has the
   balances, locked set and mint registry of a node that loads the same
   blocks from its own store at startup, at the time the pull ended or
   later. *)
C40_BootstrapMatchesLoad ==
  BootstrapComplete =>
    \A now \in Nows :
      now >= tasks[1].now => SameIndex(bc, Rebuild(store, bc.height, now))

====
